---- MODULE Spec2Model ----
(***************************************************************************)
(* A model of protoc-gen-elm: the descriptor-to-model compiler that turns  *)
(* a protobuf schema description into Elm type aliases, custom types,      *)
(* defaults, decoders and encoders.                                        *)
(*                                                                         *)
(* Go strings are modelled as sequences of one-character strings, so that  *)
(* joining, splitting, casing and number formatting are computed the way   *)
(* the code computes them.  A descriptor is a record; a nil pointer field  *)
(* is a has-flag next to the value.                                        *)
(***************************************************************************)
EXTENDS Integers, Sequences, FiniteSets, TLC

VARIABLES
    req,            \* the CodeGeneratorRequest read from stdin
    pc,             \* position of main: "parse", "loop", "marshal", "done", "fatal"
    params,         \* the parameters struct returned by parseParameters
    excludedFiles,  \* the package-level excludedFiles map (set of its true keys)
    idx,            \* position of main's loop over req.GetProtoFile()
    resp,           \* resp.File, the files appended so far
    stdout          \* the response written to stdout, <<>> while none is

vars == <<req, pc, params, excludedFiles, idx, resp, stdout>>

(***************************************************************************)
(* Strings: the standard-library operations the code calls.                *)
(***************************************************************************)
lowerLetters ==
    <<"a","b","c","d","e","f","g","h","i","j","k","l","m",
      "n","o","p","q","r","s","t","u","v","w","x","y","z">>

upperLetters ==
    <<"A","B","C","D","E","F","G","H","I","J","K","L","M",
      "N","O","P","Q","R","S","T","U","V","W","X","Y","Z">>

digits == <<"0","1","2","3","4","5","6","7","8","9">>

Range(s) == { s[i] : i \in DOMAIN s }

IsLower(c) == c \in Range(lowerLetters)

IsUpper(c) == c \in Range(upperLetters)

ToUpperChar(c) ==
    IF IsLower(c)
    THEN upperLetters[CHOOSE i \in DOMAIN lowerLetters : lowerLetters[i] = c]
    ELSE c

ToLowerChar(c) ==
    IF IsUpper(c)
    THEN lowerLetters[CHOOSE i \in DOMAIN upperLetters : upperLetters[i] = c]
    ELSE c

ToLower(s) == [i \in DOMAIN s |-> ToLowerChar(s[i])]

RECURSIVE Join(_, _)
Join(parts, sep) ==
    IF parts = <<>> THEN <<>>
    ELSE IF Len(parts) = 1 THEN parts[1]
    ELSE parts[1] \o sep \o Join(Tail(parts), sep)

RECURSIVE SplitAcc(_, _, _)
SplitAcc(s, c, cur) ==
    IF s = <<>> THEN <<cur>>
    ELSE IF Head(s) = c THEN <<cur>> \o SplitAcc(Tail(s), c, <<>>)
    ELSE SplitAcc(Tail(s), c, Append(cur, Head(s)))

\* strings.Split with a one-character separator: Split("", ",") is [""].
Split(s, sep) == SplitAcc(s, sep[1], <<>>)

HasSuffix(s, suffix) ==
    /\ Len(s) >= Len(suffix)
    /\ SubSeq(s, Len(s) - Len(suffix) + 1, Len(s)) = suffix

TrimSuffix(s, suffix) ==
    IF HasSuffix(s, suffix) THEN SubSeq(s, 1, Len(s) - Len(suffix)) ELSE s

RECURSIVE ReplaceChar(_, _, _)
ReplaceChar(s, old, new) ==
    IF s = <<>> THEN <<>>
    ELSE (IF Head(s) = old[1] THEN new ELSE <<Head(s)>>)
         \o ReplaceChar(Tail(s), old, new)

RECURSIVE Itoa(_)
\* fmt's %d of an int.
Itoa(n) ==
    IF n < 0 THEN <<"-">> \o Itoa(0 - n)
    ELSE IF n < 10 THEN <<digits[n + 1]>>
    ELSE Itoa(n \div 10) \o <<digits[(n % 10) + 1]>>

\* The index of the last separator of a path, 0 when it has none.
LastIndex(s, c) ==
    IF \E i \in DOMAIN s : s[i] = c
    THEN CHOOSE i \in DOMAIN s : s[i] = c /\ \A j \in DOMAIN s : s[j] = c => j <= i
    ELSE 0

\* filepath.Split: the directory with its trailing separator, and the file.
PathDir(path) == SubSeq(path, 1, LastIndex(path, "/"))

PathFile(path) == SubSeq(path, LastIndex(path, "/") + 1, Len(path))

(***************************************************************************)
(* The string literals of the source.                                      *)
(***************************************************************************)
intType == <<"I","n","t">>
floatType == <<"F","l","o","a","t">>
stringType == <<"S","t","r","i","n","g">>
bytesType == <<"B","y","t","e","s">>
boolType == <<"B","o","o","l">>
\* The string literals of pkg/elm and cmd/protoc-gen-elm, as character
\* sequences.
lit ==
    [Timestamp |-> <<"T","i","m","e","s","t","a","m","p">>,
     timestampDecoder |-> <<"t","i","m","e","s","t","a","m","p","D","e","c","o","d","e","r">>,
     timestampEncoder |-> <<"t","i","m","e","s","t","a","m","p","E","n","c","o","d","e","r">>,
     intValueDecoder |-> <<"i","n","t","V","a","l","u","e","D","e","c","o","d","e","r">>,
     intValueEncoder |-> <<"i","n","t","V","a","l","u","e","E","n","c","o","d","e","r">>,
     numericStringEncoder |-> <<"n","u","m","e","r","i","c","S","t","r","i","n","g","E","n","c","o","d","e","r">>,
     floatValueDecoder |-> <<"f","l","o","a","t","V","a","l","u","e","D","e","c","o","d","e","r">>,
     floatValueEncoder |-> <<"f","l","o","a","t","V","a","l","u","e","E","n","c","o","d","e","r">>,
     stringValueDecoder |-> <<"s","t","r","i","n","g","V","a","l","u","e","D","e","c","o","d","e","r">>,
     stringValueEncoder |-> <<"s","t","r","i","n","g","V","a","l","u","e","E","n","c","o","d","e","r">>,
     bytesValueDecoder |-> <<"b","y","t","e","s","V","a","l","u","e","D","e","c","o","d","e","r">>,
     bytesValueEncoder |-> <<"b","y","t","e","s","V","a","l","u","e","E","n","c","o","d","e","r">>,
     boolValueDecoder |-> <<"b","o","o","l","V","a","l","u","e","D","e","c","o","d","e","r">>,
     boolValueEncoder |-> <<"b","o","o","l","V","a","l","u","e","E","n","c","o","d","e","r">>,
     JEint |-> <<"J","E",".","i","n","t">>,
     JEfloat |-> <<"J","E",".","f","l","o","a","t">>,
     JEbool |-> <<"J","E",".","b","o","o","l">>,
     JEstring |-> <<"J","E",".","s","t","r","i","n","g">>,
     bytesFieldEncoder |-> <<"b","y","t","e","s","F","i","e","l","d","E","n","c","o","d","e","r">>,
     intDecoder |-> <<"i","n","t","D","e","c","o","d","e","r">>,
     JDfloat |-> <<"J","D",".","f","l","o","a","t">>,
     JDbool |-> <<"J","D",".","b","o","o","l">>,
     JDstring |-> <<"J","D",".","s","t","r","i","n","g">>,
     bytesFieldDecoder |-> <<"b","y","t","e","s","F","i","e","l","d","D","e","c","o","d","e","r">>,
     PortDecoder |-> <<"P","o","r","t","D","e","c","o","d","e","r">>,
     PortEncoder |-> <<"P","o","r","t","E","n","c","o","d","e","r">>,
     Default |-> <<"D","e","f","a","u","l","t">>,
     zero |-> <<"0">>,
     False |-> <<"F","a","l","s","e">>,
     emptyQuoted |-> <<"\"","\"">>,
     emptyList |-> <<"[","]">>,
     Nothing |-> <<"N","o","t","h","i","n","g">>,
     Unspecified |-> <<"U","n","s","p","e","c","i","f","i","e","d">>,
     JEnull |-> <<"J","E",".","n","u","l","l">>,
     idxWithDefault |-> <<"i","d","x","W","i","t","h","D","e","f","a","u","l","t"," ">>,
     custom |-> <<"c","u","s","t","o","m"," ">>,
     mapEntries |-> <<"m","a","p","E","n","t","r","i","e","s"," ">>,
     mapEntriesFieldEncoder |-> <<"m","a","p","E","n","t","r","i","e","s","F","i","e","l","d","E","n","c","o","d","e","r"," ">>,
     maybeEncoder |-> <<"m","a","y","b","e","E","n","c","o","d","e","r"," ">>,
     JDmaybeOpen |-> <<" ","(","J","D",".","m","a","y","b","e"," ">>,
     closeNothing |-> <<")"," ","N","o","t","h","i","n","g">>,
     JElist |-> <<"J","E",".","l","i","s","t"," ">>,
     JDlistOpen |-> <<" ","(","J","D",".","l","i","s","t"," ">>,
     closeEmptyList |-> <<")"," ","[","]">>,
     DictDict |-> <<"D","i","c","t",".","D","i","c","t"," ">>,
     Maybe |-> <<"M","a","y","b","e"," ">>,
     List |-> <<"L","i","s","t"," ">>,
     vDot |-> <<" ","v",".">>,
     space |-> <<" ">>,
     underscore |-> <<"_">>,
     dot |-> <<".">>,
     slash |-> <<"/">>,
     comma |-> <<",">>,
     equals |-> <<"=">>,
     quote |-> <<"\"">>,
     escapedQuote |-> <<"\\","\"">>,
     dotProto |-> <<".","p","r","o","t","o">>,
     p_removeDeprecated |-> <<"r","e","m","o","v","e","-","d","e","p","r","e","c","a","t","e","d">>,
     p_debug |-> <<"d","e","b","u","g">>,
     p_modulePrefix |-> <<"m","o","d","u","l","e","-","p","r","e","f","i","x">>,
     p_exclude |-> <<"e","x","c","l","u","d","e">>,
     f_timestampProto |-> <<"g","o","o","g","l","e","/","p","r","o","t","o","b","u","f","/","t","i","m","e","s","t","a","m","p",".","p","r","o","t","o">>,
     f_wrappersProto |-> <<"g","o","o","g","l","e","/","p","r","o","t","o","b","u","f","/","w","r","a","p","p","e","r","s",".","p","r","o","t","o">>,
     f_descriptorProto |-> <<"g","o","o","g","l","e","/","p","r","o","t","o","b","u","f","/","d","e","s","c","r","i","p","t","o","r",".","p","r","o","t","o">>]

\* The keys of WellKnownTypeMap.
wkt ==
    [Timestamp |-> <<".","g","o","o","g","l","e",".","p","r","o","t","o","b","u","f",".","T","i","m","e","s","t","a","m","p">>,
     Int32Value |-> <<".","g","o","o","g","l","e",".","p","r","o","t","o","b","u","f",".","I","n","t","3","2","V","a","l","u","e">>,
     Int64Value |-> <<".","g","o","o","g","l","e",".","p","r","o","t","o","b","u","f",".","I","n","t","6","4","V","a","l","u","e">>,
     UInt32Value |-> <<".","g","o","o","g","l","e",".","p","r","o","t","o","b","u","f",".","U","I","n","t","3","2","V","a","l","u","e">>,
     UInt64Value |-> <<".","g","o","o","g","l","e",".","p","r","o","t","o","b","u","f",".","U","I","n","t","6","4","V","a","l","u","e">>,
     DoubleValue |-> <<".","g","o","o","g","l","e",".","p","r","o","t","o","b","u","f",".","D","o","u","b","l","e","V","a","l","u","e">>,
     FloatValue |-> <<".","g","o","o","g","l","e",".","p","r","o","t","o","b","u","f",".","F","l","o","a","t","V","a","l","u","e">>,
     StringValue |-> <<".","g","o","o","g","l","e",".","p","r","o","t","o","b","u","f",".","S","t","r","i","n","g","V","a","l","u","e">>,
     BytesValue |-> <<".","g","o","o","g","l","e",".","p","r","o","t","o","b","u","f",".","B","y","t","e","s","V","a","l","u","e">>,
     BoolValue |-> <<".","g","o","o","g","l","e",".","p","r","o","t","o","b","u","f",".","B","o","o","l","V","a","l","u","e">>]

extension == <<".","e","l","m">>
reservedKeywords ==
    { <<"m","o","d","u","l","e">>,
      <<"e","x","p","o","s","i","n","g">>,
      <<"i","m","p","o","r","t">>,
      <<"t","y","p","e">>,
      <<"l","e","t">>,
      <<"i","n">>,
      <<"i","f">>,
      <<"t","h","e","n">>,
      <<"e","l","s","e">>,
      <<"w","h","e","r","e">>,
      <<"c","a","s","e">>,
      <<"o","f">>,
      <<"p","o","r","t">>,
      <<"a","s">> }

(***************************************************************************)
(* pkg/stringextras: the casing helpers.  The package is not among the     *)
(* source files; these follow the naming contract of the specification     *)
(* (section 4.1): convert to the casing convention, and make the first     *)
(* letter upper for a type and lower for a variable.                       *)
(***************************************************************************)
FirstUpper(s) ==
    IF s = <<>> THEN s ELSE <<ToUpperChar(Head(s))>> \o Tail(s)

FirstLower(s) ==
    IF s = <<>> THEN s ELSE <<ToLowerChar(Head(s))>> \o Tail(s)

RECURSIVE ConcatUpper(_)
ConcatUpper(parts) ==
    IF parts = <<>> THEN <<>>
    ELSE FirstUpper(Head(parts)) \o ConcatUpper(Tail(parts))

\* Upper camel case: the words between underscores, each capitalized.
CamelCase(s) == ConcatUpper(Split(s, lit.underscore))

LowerCamelCase(s) == FirstLower(CamelCase(s))

(***************************************************************************)
(* Descriptors (descriptorpb).  A field, a message, an enum and a file are *)
(* records:                                                                *)
(*   field   [name, number, label, type, typeName, hasOneofIndex,          *)
(*            oneofIndex, deprecated, defaultValue]                        *)
(*   value   [name, number, deprecated]                                    *)
(*   enum    [name, value, deprecated]                                     *)
(*   message [name, field, oneofDecl, nestedType, enumType, deprecated,    *)
(*            mapEntry]                                                    *)
(*   file    [name, dependency, enumType, messageType]                     *)
(***************************************************************************)
IntKinds ==
    { "TYPE_INT32", "TYPE_INT64", "TYPE_UINT32", "TYPE_UINT64", "TYPE_SINT32",
      "TYPE_SINT64", "TYPE_FIXED32", "TYPE_FIXED64", "TYPE_SFIXED32",
      "TYPE_SFIXED64" }

Int32Kinds ==
    { "TYPE_INT32", "TYPE_UINT32", "TYPE_SINT32", "TYPE_FIXED32", "TYPE_SFIXED32" }

Int64Kinds == IntKinds \ Int32Kinds

FloatKinds == { "TYPE_FLOAT", "TYPE_DOUBLE" }

NamedKinds == { "TYPE_ENUM", "TYPE_MESSAGE" }

\* Every kind one of the classifier's switches has a case for.
MappedKinds ==
    IntKinds \cup FloatKinds \cup NamedKinds
        \cup { "TYPE_BOOL", "TYPE_STRING", "TYPE_BYTES" }

\* descriptorpb's kinds: the mapped ones and TYPE_GROUP.
AllKinds == MappedKinds \cup { "TYPE_GROUP" }

(***************************************************************************)
(* pkg/elm: names.                                                         *)
(***************************************************************************)
WellKnownTypeMap ==
    (wkt.Timestamp :>
        [Type |-> lit.Timestamp, Decoder |-> lit.timestampDecoder, Encoder |-> lit.timestampEncoder])
    @@ (wkt.Int32Value :>
        [Type |-> intType, Decoder |-> lit.intValueDecoder, Encoder |-> lit.intValueEncoder])
    @@ (wkt.Int64Value :>
        [Type |-> intType, Decoder |-> lit.intValueDecoder, Encoder |-> lit.numericStringEncoder])
    @@ (wkt.UInt32Value :>
        [Type |-> intType, Decoder |-> lit.intValueDecoder, Encoder |-> lit.intValueEncoder])
    @@ (wkt.UInt64Value :>
        [Type |-> intType, Decoder |-> lit.intValueDecoder, Encoder |-> lit.numericStringEncoder])
    @@ (wkt.DoubleValue :>
        [Type |-> floatType, Decoder |-> lit.floatValueDecoder, Encoder |-> lit.floatValueEncoder])
    @@ (wkt.FloatValue :>
        [Type |-> floatType, Decoder |-> lit.floatValueDecoder, Encoder |-> lit.floatValueEncoder])
    @@ (wkt.StringValue :>
        [Type |-> stringType, Decoder |-> lit.stringValueDecoder, Encoder |-> lit.stringValueEncoder])
    @@ (wkt.BytesValue :>
        [Type |-> bytesType, Decoder |-> lit.bytesValueDecoder, Encoder |-> lit.bytesValueEncoder])
    @@ (wkt.BoolValue :>
        [Type |-> boolType, Decoder |-> lit.boolValueDecoder, Encoder |-> lit.boolValueEncoder])

avoidCollision(in) ==
    IF in \in reservedKeywords THEN in \o lit.underscore ELSE in

jsIdx(i) == i - 1

FieldName(in) == avoidCollision(LowerCamelCase(in))

FieldNum(pb) == pb.number

DecoderName(t) == FirstLower(t \o lit.PortDecoder)

EncoderName(t) == FirstLower(t \o lit.PortEncoder)

\* append(preface, x) joined with "_": the preface in its own order, then x.
NestedType(name, preface) ==
    FirstUpper(Join(Append(preface, CamelCase(name)), lit.underscore))

NestedVariantName(name, preface) ==
    Join(Append(preface, CamelCase(ToLower(name))), lit.underscore)

EnumDefaultVariantVariableName(t) == FirstLower(t \o lit.Default)

OneOfType(in) == in

RECURSIVE messageSegments(_)
\* The segments ExternalType keeps: the non-empty ones that do not start
\* with a lower-case letter, each with its first letter made upper.
messageSegments(segs) ==
    IF segs = <<>> THEN <<>>
    ELSE LET s == Head(segs)
         IN  (IF s # <<>> /\ ~IsLower(s[1]) THEN <<FirstUpper(s)>> ELSE <<>>)
             \o messageSegments(Tail(segs))

ExternalType(inType) ==
    Join(messageSegments(Split(inType, lit.dot)), lit.underscore)

(***************************************************************************)
(* pkg/elm: the type classifier.  Each switch panics on a kind it has no   *)
(* case for; the ...Panics predicates say when, and the value is read only *)
(* where the function returns.                                             *)
(***************************************************************************)
BasicFieldEncoderPanics(inField) == inField.type \notin MappedKinds

BasicFieldEncoder(inField) ==
    CASE inField.type \in Int32Kinds -> lit.JEint
      [] inField.type \in Int64Kinds -> lit.numericStringEncoder
      [] inField.type \in FloatKinds -> lit.JEfloat
      [] inField.type = "TYPE_BOOL" -> lit.JEbool
      [] inField.type = "TYPE_STRING" -> lit.JEstring
      [] inField.type \in NamedKinds ->
            IF inField.typeName \in DOMAIN WellKnownTypeMap
            THEN WellKnownTypeMap[inField.typeName].Encoder
            ELSE EncoderName(ExternalType(inField.typeName))
      [] inField.type = "TYPE_BYTES" -> lit.bytesFieldEncoder

BasicFieldDecoderPanics(inField) == inField.type \notin MappedKinds

BasicFieldDecoder(inField) ==
    CASE inField.type \in IntKinds -> lit.intDecoder
      [] inField.type \in FloatKinds -> lit.JDfloat
      [] inField.type = "TYPE_BOOL" -> lit.JDbool
      [] inField.type = "TYPE_STRING" -> lit.JDstring
      [] inField.type = "TYPE_BYTES" -> lit.bytesFieldDecoder
      [] inField.type \in NamedKinds ->
            IF inField.typeName \in DOMAIN WellKnownTypeMap
            THEN WellKnownTypeMap[inField.typeName].Decoder
            ELSE DecoderName(ExternalType(inField.typeName))

BasicFieldTypePanics(inField) == inField.type \notin MappedKinds

BasicFieldType(inField) ==
    CASE inField.type \in IntKinds -> intType
      [] inField.type \in FloatKinds -> floatType
      [] inField.type = "TYPE_BOOL" -> boolType
      [] inField.type = "TYPE_STRING" -> stringType
      [] inField.type = "TYPE_BYTES" -> bytesType
      [] inField.type \in NamedKinds ->
            IF inField.typeName \in DOMAIN WellKnownTypeMap
            THEN WellKnownTypeMap[inField.typeName].Type
            ELSE ExternalType(inField.typeName)

BasicFieldDefaultValuePanics(inField) ==
    /\ inField.label # "LABEL_REPEATED"
    /\ inField.type \notin MappedKinds

BasicFieldDefaultValue(inField) ==
    IF inField.label = "LABEL_REPEATED" THEN lit.emptyList
    ELSE CASE inField.type \in IntKinds \cup FloatKinds -> lit.zero
           [] inField.type = "TYPE_BOOL" -> lit.False
           [] inField.type = "TYPE_STRING" -> lit.emptyQuoted
           [] inField.type = "TYPE_BYTES" -> lit.emptyList
           [] inField.type = "TYPE_ENUM" ->
                 EnumDefaultVariantVariableName(ExternalType(inField.typeName))
           [] inField.type = "TYPE_MESSAGE" -> lit.Nothing

(***************************************************************************)
(* pkg/elm: the field codecs, each one Sprintf.                            *)
(***************************************************************************)
RequiredFieldEncoder(pb) ==
    BasicFieldEncoder(pb) \o lit.vDot \o FieldName(pb.name)

RequiredFieldDecoder(pb) ==
    lit.idxWithDefault \o Itoa(jsIdx(FieldNum(pb))) \o lit.space
        \o BasicFieldDecoder(pb) \o lit.space \o BasicFieldDefaultValue(pb)

\* OneOfEncoder with the javascript index in place of the field number.
OneOfEncoder_jsIdx(oneof, field, t) ==
    EncoderName(t) \o lit.space \o Itoa(jsIdx(FieldNum(field))) \o lit.vDot
        \o FieldName(oneof.name)

OneOfEncoder(oneof, field, t) ==
    EncoderName(t) \o lit.space \o Itoa(FieldNum(field)) \o lit.vDot
        \o FieldName(oneof.name)

OneOfDecoder(pb, t) == lit.custom \o DecoderName(t)

MapTypePanics(messagePb) == Len(messagePb.field) < 2

MapType(messagePb) ==
    lit.DictDict \o BasicFieldType(messagePb.field[1]) \o lit.space
        \o BasicFieldType(messagePb.field[2])

MapEncoder(fieldPb, messagePb) ==
    lit.mapEntriesFieldEncoder \o Itoa(FieldNum(fieldPb)) \o lit.space
        \o BasicFieldEncoder(messagePb.field[2]) \o lit.vDot
        \o FieldName(fieldPb.name)

MapDecoder(fieldPb, messagePb) ==
    lit.mapEntries \o Itoa(FieldNum(fieldPb)) \o lit.space
        \o BasicFieldDecoder(messagePb.field[2])

MaybeType(t) == lit.Maybe \o t

MaybeEncoder(pb) ==
    lit.maybeEncoder \o BasicFieldEncoder(pb) \o lit.vDot \o FieldName(pb.name)

MaybeDecoder(pb) ==
    lit.idxWithDefault \o Itoa(jsIdx(FieldNum(pb))) \o lit.JDmaybeOpen
        \o BasicFieldDecoder(pb) \o lit.closeNothing

ListType(t) == lit.List \o t

ListEncoder(pb) ==
    lit.JElist \o BasicFieldEncoder(pb) \o lit.vDot \o FieldName(pb.name)

ListDecoder(pb) ==
    lit.idxWithDefault \o Itoa(jsIdx(FieldNum(pb))) \o lit.JDlistOpen
        \o BasicFieldDecoder(pb) \o lit.closeEmptyList

(***************************************************************************)
(* cmd/protoc-gen-elm: deprecation, enums and oneofs.                      *)
(***************************************************************************)
\* isDeprecated without the test of the marker.
isDeprecated_never(options) == FALSE

isDeprecated(options) == options.deprecated

RECURSIVE enumVariants(_, _, _)
\* The inner loop of enumsToCustomTypes: the variants that survive.
enumVariants(preface, values, p) ==
    IF values = <<>> THEN <<>>
    ELSE LET value == Head(values)
         IN  (IF isDeprecated(value) /\ p.RemoveDeprecated
              THEN <<>>
              ELSE <<[Name |-> NestedVariantName(value.name, preface),
                      Value |-> value.number]>>)
             \o enumVariants(preface, Tail(values), p)

\* values[0] of an empty slice: index out of range.
enumsToCustomTypesPanics(preface, enumPbs, p) ==
    \E i \in DOMAIN enumPbs :
        /\ ~(isDeprecated(enumPbs[i]) /\ p.RemoveDeprecated)
        /\ enumVariants(preface, enumPbs[i].value, p) = <<>>

RECURSIVE enumsToCustomTypes(_, _, _)
enumsToCustomTypes(preface, enumPbs, p) ==
    IF enumPbs = <<>> THEN <<>>
    ELSE LET enumPb == Head(enumPbs)
             values == enumVariants(preface, enumPb.value, p)
             enumType == NestedType(enumPb.name, preface)
         IN  (IF isDeprecated(enumPb) /\ p.RemoveDeprecated
              THEN <<>>
              ELSE <<[Name |-> enumType,
                      Decoder |-> DecoderName(enumType),
                      Encoder |-> EncoderName(enumType),
                      DefaultVariantVariable |->
                          EnumDefaultVariantVariableName(enumType),
                      DefaultVariantValue |-> values[1].Name,
                      Variants |-> values]>>)
             \o enumsToCustomTypes(preface, Tail(enumPbs), p)

\* isVariantOf without the comparison of the oneof index.
isVariantOf_anyOneof(inField, oneofIndex, p) ==
    /\ ~(isDeprecated(inField) /\ p.RemoveDeprecated)
    /\ inField.hasOneofIndex

\* Whether a field is one the variant loop of oneOfsToCustomTypes keeps for
\* the oneof at (0-based) oneofIndex.
isVariantOf(inField, oneofIndex, p) ==
    /\ ~(isDeprecated(inField) /\ p.RemoveDeprecated)
    /\ inField.hasOneofIndex
    /\ inField.oneofIndex = oneofIndex

RECURSIVE oneOfVariants(_, _, _, _)
oneOfVariants(preface, fields, oneofIndex, p) ==
    IF fields = <<>> THEN <<>>
    ELSE LET inField == Head(fields)
         IN  (IF isVariantOf(inField, oneofIndex, p)
              THEN <<[Name |-> NestedVariantName(inField.name, preface),
                      Type |-> BasicFieldType(inField),
                      Num |-> inField.number,
                      Decoder |-> BasicFieldDecoder(inField),
                      Encoder |-> BasicFieldEncoder(inField)]>>
              ELSE <<>>)
             \o oneOfVariants(preface, Tail(fields), oneofIndex, p)

oneOfsToCustomTypesPanics(preface, messagePb, p) ==
    /\ ~(isDeprecated(messagePb) /\ p.RemoveDeprecated)
    /\ \E oneofIndex \in 0 .. (Len(messagePb.oneofDecl) - 1) :
          \E i \in DOMAIN messagePb.field :
              /\ isVariantOf(messagePb.field[i], oneofIndex, p)
              /\ BasicFieldTypePanics(messagePb.field[i])

oneOfsToCustomTypes(preface, messagePb, p) ==
    IF isDeprecated(messagePb) /\ p.RemoveDeprecated THEN <<>>
    ELSE [k \in DOMAIN messagePb.oneofDecl |->
            LET name == NestedType(messagePb.oneofDecl[k].name, preface)
            IN  [Name |-> name,
                 Decoder |-> DecoderName(name),
                 Encoder |-> EncoderName(name),
                 Variants |-> oneOfVariants(preface, messagePb.field, k - 1, p)]]

(***************************************************************************)
(* cmd/protoc-gen-elm: defaults and field shapes.                          *)
(***************************************************************************)
\* defV after fieldDefault's switch, where the switch does not panic.
fieldDefaultSwitch(field) ==
    CASE field.type = "TYPE_STRING" ->
            lit.quote \o ReplaceChar(field.defaultValue, lit.quote, lit.escapedQuote)
                \o lit.quote
      [] field.type = "TYPE_BOOL" ->
            <<ToUpperChar(field.defaultValue[1])>> \o Tail(field.defaultValue)
      [] OTHER -> field.defaultValue

\* defV[:1] of an empty string: slice bounds out of range.
fieldDefaultPanics(field) ==
    \/ field.type = "TYPE_BOOL" /\ field.defaultValue = <<>>
    \/ /\ field.type # "TYPE_BOOL"
       /\ fieldDefaultSwitch(field) = <<>>
       /\ BasicFieldDefaultValuePanics(field)

fieldDefault(field) ==
    LET defV == fieldDefaultSwitch(field)
    IN  IF defV = <<>> THEN BasicFieldDefaultValue(field) ELSE defV

isOptional(inField) ==
    inField.label = "LABEL_OPTIONAL" /\ inField.type = "TYPE_MESSAGE"

isRepeated(inField) == inField.label = "LABEL_REPEATED"

getLocalType(fullyQualifiedTypeName) ==
    LET splitName == Split(fullyQualifiedTypeName, lit.dot)
    IN  splitName[Len(splitName)]

isMapEntryFor(nested, localTypeName) ==
    nested.name = localTypeName /\ nested.mapEntry

\* The first nested map-entry message of that name; hasNestedType says
\* whether getNestedType returns one (non-nil).
hasNestedType(inField, inMessage) ==
    \E i \in DOMAIN inMessage.nestedType :
        isMapEntryFor(inMessage.nestedType[i], getLocalType(inField.typeName))

getNestedType(inField, inMessage) ==
    LET localTypeName == getLocalType(inField.typeName)
        first == CHOOSE i \in DOMAIN inMessage.nestedType :
                    /\ isMapEntryFor(inMessage.nestedType[i], localTypeName)
                    /\ \A j \in 1 .. (i - 1) :
                          ~isMapEntryFor(inMessage.nestedType[j], localTypeName)
    IN  inMessage.nestedType[first]

\* A TypeAliasField with every member at Go's zero value.
zeroField ==
    [Name |-> <<>>, Type |-> <<>>, Number |-> 0, Default |-> <<>>,
     Decoder |-> <<>>, Encoder |-> <<>>]

\* fieldShape without the test for a map entry.
fieldShape_noMapTest(fieldPb, messagePb) ==
    IF fieldPb.hasOneofIndex THEN "oneof"
    ELSE IF isOptional(fieldPb) THEN "optional"
    ELSE IF isRepeated(fieldPb) THEN "repeated"
    ELSE "plain"

\* The shape messages gives a field that survives filtering, by the order
\* of its tests.
fieldShape(fieldPb, messagePb) ==
    IF fieldPb.hasOneofIndex THEN "oneof"
    ELSE IF hasNestedType(fieldPb, messagePb) THEN "map"
    ELSE IF isOptional(fieldPb) THEN "optional"
    ELSE IF isRepeated(fieldPb) THEN "repeated"
    ELSE "plain"

\* The panics of one pass of the field loop of messages.
fieldPanics(fieldPb, messagePb) ==
    LET shape == fieldShape(fieldPb, messagePb)
    IN  CASE shape = "oneof" ->
                \* messagePb.GetOneofDecl()[index]: index out of range
                ~(fieldPb.oneofIndex \in 0 .. (Len(messagePb.oneofDecl) - 1))
          [] shape = "map" ->
                LET nested == getNestedType(fieldPb, messagePb)
                IN  \/ MapTypePanics(nested)
                    \/ BasicFieldTypePanics(nested.field[1])
                    \/ BasicFieldTypePanics(nested.field[2])
                    \/ BasicFieldEncoderPanics(nested.field[2])
                    \/ BasicFieldDecoderPanics(nested.field[2])
          [] shape = "optional" ->
                BasicFieldTypePanics(fieldPb) \/ fieldDefaultPanics(fieldPb)
          [] shape = "repeated" -> BasicFieldTypePanics(fieldPb)
          [] shape = "plain" ->
                BasicFieldTypePanics(fieldPb) \/ fieldDefaultPanics(fieldPb)

\* The TypeAliasField one pass of the field loop builds.
fieldEntry(fieldPb, messagePb, nestedPreface) ==
    LET shape == fieldShape(fieldPb, messagePb)
    IN  CASE shape = "oneof" ->
                LET oneof == messagePb.oneofDecl[fieldPb.oneofIndex + 1]
                    typeName == OneOfType(NestedType(oneof.name, nestedPreface))
                IN  [zeroField EXCEPT
                        !.Name = FieldName(oneof.name),
                        !.Type = typeName,
                        !.Number = fieldPb.number,
                        !.Encoder = OneOfEncoder(oneof, fieldPb, typeName)]
          [] shape = "map" ->
                LET nested == getNestedType(fieldPb, messagePb)
                IN  [Name |-> FieldName(fieldPb.name),
                     Type |-> MapType(nested),
                     Number |-> fieldPb.number,
                     Default |-> lit.Nothing,
                     Encoder |-> MapEncoder(fieldPb, nested),
                     Decoder |-> MapDecoder(fieldPb, nested)]
          [] shape = "optional" ->
                [Name |-> FieldName(fieldPb.name),
                 Type |-> MaybeType(BasicFieldType(fieldPb)),
                 Number |-> fieldPb.number,
                 Default |-> fieldDefault(fieldPb),
                 Encoder |-> MaybeEncoder(fieldPb),
                 Decoder |-> MaybeDecoder(fieldPb)]
          [] shape = "repeated" ->
                [Name |-> FieldName(fieldPb.name),
                 Type |-> ListType(BasicFieldType(fieldPb)),
                 Number |-> fieldPb.number,
                 Default |-> lit.emptyList,
                 Encoder |-> ListEncoder(fieldPb),
                 Decoder |-> ListDecoder(fieldPb)]
          [] shape = "plain" ->
                [Name |-> FieldName(fieldPb.name),
                 Type |-> BasicFieldType(fieldPb),
                 Number |-> fieldPb.number,
                 Default |-> fieldDefault(fieldPb),
                 Encoder |-> RequiredFieldEncoder(fieldPb),
                 Decoder |-> RequiredFieldDecoder(fieldPb)]

RECURSIVE fieldLoop(_, _, _, _, _)
\* The field loop of messages from field k on: a oneof member is appended
\* to FieldEncoders only, any other surviving field to both lists.
fieldLoop(messagePb, nestedPreface, p, k, alias) ==
    IF k > Len(messagePb.field) THEN alias
    ELSE LET fieldPb == messagePb.field[k]
             entry == fieldEntry(fieldPb, messagePb, nestedPreface)
         IN  IF isDeprecated(fieldPb) /\ p.RemoveDeprecated
             THEN fieldLoop(messagePb, nestedPreface, p, k + 1, alias)
             ELSE IF fieldPb.hasOneofIndex
             THEN fieldLoop(messagePb, nestedPreface, p, k + 1,
                      [alias EXCEPT !.FieldEncoders = Append(@, entry)])
             ELSE fieldLoop(messagePb, nestedPreface, p, k + 1,
                      [alias EXCEPT !.Fields = Append(@, entry),
                                    !.FieldEncoders = Append(@, entry)])

RECURSIVE insertByNumber(_, _)
insertByNumber(sorted, e) ==
    IF sorted = <<>> THEN <<e>>
    ELSE IF e.Number < Head(sorted).Number THEN <<e>> \o sorted
    ELSE <<Head(sorted)>> \o insertByNumber(Tail(sorted), e)

\* messages without its sort.Slice.
sortByNumber_unsorted(entries) == entries

RECURSIVE sortByNumber(_)
\* sort.Slice with less = (Number <): ascending by wire number.  Entries
\* with equal numbers keep their order here; the schema's numbers differ.
sortByNumber(entries) ==
    IF entries = <<>> THEN <<>>
    ELSE insertByNumber(sortByNumber(SubSeq(entries, 1, Len(entries) - 1)),
                        entries[Len(entries)])

\* The loop over GetOneofDecl() that appends one holder field per oneof.
oneOfHolders(messagePb, nestedPreface) ==
    [k \in DOMAIN messagePb.oneofDecl |->
        LET oneOfPb == messagePb.oneofDecl[k]
            typeName == OneOfType(NestedType(oneOfPb.name, nestedPreface))
        IN  [zeroField EXCEPT
                !.Name = FieldName(oneOfPb.name),
                !.Type = typeName,
                !.Default = typeName \o lit.Unspecified,
                !.Decoder = OneOfDecoder(oneOfPb, typeName)]]

\* append([]string{messagePb.GetName()}, preface...): the message's own
\* name first, then the preface it was given.
nestedPrefaceOf(messagePb, preface) == <<messagePb.name>> \o preface

\* typeAliasOf with the oneof holders put before the fields.
typeAliasOf_holdersFirst(messagePb, preface, p) ==
    LET name == NestedType(messagePb.name, preface)
        nestedPreface == nestedPrefaceOf(messagePb, preface)
        looped == fieldLoop(messagePb, nestedPreface, p, 1,
                            [Name |-> name,
                             Decoder |-> DecoderName(name),
                             Encoder |-> EncoderName(name),
                             FieldEncoders |-> <<>>,
                             Fields |-> <<>>])
    IN  [looped EXCEPT
            !.FieldEncoders = sortByNumber(@),
            !.Fields = oneOfHolders(messagePb, nestedPreface) \o @]

typeAliasOf(messagePb, preface, p) ==
    LET name == NestedType(messagePb.name, preface)
        nestedPreface == nestedPrefaceOf(messagePb, preface)
        looped == fieldLoop(messagePb, nestedPreface, p, 1,
                            [Name |-> name,
                             Decoder |-> DecoderName(name),
                             Encoder |-> EncoderName(name),
                             FieldEncoders |-> <<>>,
                             Fields |-> <<>>])
    IN  [looped EXCEPT
            !.FieldEncoders = sortByNumber(@),
            !.Fields = @ \o oneOfHolders(messagePb, nestedPreface)]

RECURSIVE messagesPanics(_, _, _)
messagesPanics(preface, messagePbs, p) ==
    \E m \in DOMAIN messagePbs :
        LET messagePb == messagePbs[m]
            nestedPreface == nestedPrefaceOf(messagePb, preface)
        IN  /\ ~(isDeprecated(messagePb) /\ p.RemoveDeprecated)
            /\ \/ \E k \in DOMAIN messagePb.field :
                      /\ ~(isDeprecated(messagePb.field[k]) /\ p.RemoveDeprecated)
                      /\ fieldPanics(messagePb.field[k], messagePb)
               \/ oneOfsToCustomTypesPanics(nestedPreface, messagePb, p)
               \/ enumsToCustomTypesPanics(nestedPreface, messagePb.enumType, p)
               \/ messagesPanics(nestedPreface, messagePb.nestedType, p)

RECURSIVE messages(_, _, _)
messages(preface, messagePbs, p) ==
    IF messagePbs = <<>> THEN <<>>
    ELSE LET messagePb == Head(messagePbs)
             nestedPreface == nestedPrefaceOf(messagePb, preface)
         IN  (IF isDeprecated(messagePb) /\ p.RemoveDeprecated
              THEN <<>>
              ELSE <<[TypeAlias |-> typeAliasOf(messagePb, preface, p),
                      OneOfCustomTypes |->
                          oneOfsToCustomTypes(nestedPreface, messagePb, p),
                      EnumCustomTypes |->
                          enumsToCustomTypes(nestedPreface, messagePb.enumType, p),
                      NestedMessages |->
                          messages(nestedPreface, messagePb.nestedType, p)]>>)
             \o messages(preface, Tail(messagePbs), p)

(***************************************************************************)
(* The templates: the encoder list of "type-alias" and the decoder and     *)
(* encoder of "oneof-custom-type", with the template functions fieldSeq,   *)
(* nextFieldNum and toJSIdx.  A rendered list is a sequence of items, each *)
(* with the separator the template writes before it (or not).              *)
(***************************************************************************)
fieldSeq(from, to) == [i \in 1 .. (to - from) |-> from + i - 1]

nextFieldNum(n) == n + 1

toJSIdx(n) == n - 1

RECURSIVE typeAliasEncoderItems(_, _, _)
\* The items between "valueList [" and "]": for each entry of
\* FieldEncoders from the k-th on, a JE.null for every number from $idx up
\* to the entry's, then the entry's encoder in parentheses.
typeAliasEncoderItems(fieldEncoders, k, idxVar) ==
    IF k > Len(fieldEncoders) THEN <<>>
    ELSE LET v == fieldEncoders[k]
             gap == fieldSeq(idxVar, v.Number)
         IN  [i \in DOMAIN gap |-> [sep |-> gap[i] # 1, expr |-> lit.JEnull]]
             \o <<[sep |-> v.Number # 1,
                   expr |-> <<"(">> \o v.Encoder \o <<")">>]>>
             \o typeAliasEncoderItems(fieldEncoders, k + 1, nextFieldNum(v.Number))

typeAliasEncoderList(alias) == typeAliasEncoderItems(alias.FieldEncoders, 1, 1)

\* The alternatives of the JD.oneOf of a oneof's decoder: one JD.map per
\* variant reading JD.index (toJSIdx .Num) through failOnNull, then the
\* JD.succeed of the Unspecified variant.
oneOfDecoderItems(custom) ==
    [i \in DOMAIN custom.Variants |->
        [sep |-> i # 1,
         kind |-> "map",
         name |-> custom.Variants[i].Name,
         index |-> toJSIdx(custom.Variants[i].Num),
         decoder |-> custom.Variants[i].Decoder]]
    \o <<[sep |-> TRUE,
          kind |-> "succeed",
          name |-> custom.Name \o lit.Unspecified,
          index |-> 0,
          decoder |-> <<>>]>>

(***************************************************************************)
(* The Elm side of a oneof decoder.  A wire sequence is a sequence of      *)
(* "null" and "value"; JD.index fails outside it.                          *)
(***************************************************************************)
\* failOnNull without the null test.
failOnNull_noCheck(v) == "present"

\* failOnNull: null fails, anything else goes to the variant's decoder.
failOnNull(v) == IF v = "null" THEN "fail" ELSE "present"

\* One alternative applied to a wire sequence.
alternativeSucceeds(item, wire) ==
    \/ item.kind = "succeed"
    \/ /\ item.kind = "map"
       /\ item.index + 1 \in DOMAIN wire
       /\ failOnNull(wire[item.index + 1]) = "present"

\* JD.oneOf: the first alternative that succeeds, <<>> when none does.
oneOfDecode(custom, wire) ==
    LET items == oneOfDecoderItems(custom)
        ok == { i \in DOMAIN items : alternativeSucceeds(items[i], wire) }
    IN  IF ok = {} THEN <<>>
        ELSE items[CHOOSE i \in ok : \A j \in ok : i <= j].name

\* The branches of the case of a oneof's encoder after the Unspecified one:
\* one per variant, guarded by idx == .Num.
oneOfEncoderCases(custom) ==
    [i \in DOMAIN custom.Variants |->
        [name |-> custom.Variants[i].Name,
         num |-> custom.Variants[i].Num,
         encoder |-> custom.Variants[i].Encoder]]

\* The encoder applied to an index and a value of the oneof, the value given by
\* the name of its constructor: JE.null for Unspecified and for a variant
\* whose number is not the index, else the variant's encoder applied to its payload.
oneOfEncode(custom, index, v) ==
    LET cases == oneOfEncoderCases(custom)
        hits == { i \in DOMAIN cases : cases[i].name = v }
    IN  IF v = custom.Name \o lit.Unspecified \/ hits = {}
        THEN [kind |-> "null", encoder |-> <<>>]
        ELSE LET c == cases[CHOOSE i \in hits : \A k \in hits : i <= k]
             IN  IF index = c.num
                 THEN [kind |-> "value", encoder |-> c.encoder]
                 ELSE [kind |-> "null", encoder |-> <<>>]

(***************************************************************************)
(* cmd/protoc-gen-elm: file and module names, and templateFile.            *)
(***************************************************************************)
RECURSIVE upperSegments(_)
\* The non-empty segments, each with its first letter made upper.
upperSegments(segs) ==
    IF segs = <<>> THEN <<>>
    ELSE (IF Head(segs) = <<>> THEN <<>> ELSE <<FirstUpper(Head(segs))>>)
         \o upperSegments(Tail(segs))

RECURSIVE concatWithSlash(_)
concatWithSlash(segs) ==
    IF segs = <<>> THEN <<>>
    ELSE Head(segs) \o lit.slash \o concatWithSlash(Tail(segs))

fileName(inFilePath) ==
    LET trimmed == TrimSuffix(PathFile(inFilePath), lit.dotProto)
        shortFileName == FirstUpper(trimmed)
    IN  concatWithSlash(upperSegments(Split(PathDir(inFilePath), lit.slash)))
            \o shortFileName \o extension

moduleName(modPrefix, inFilePath) ==
    LET trimmed == TrimSuffix(PathFile(inFilePath), lit.dotProto)
        shortModuleName == FirstUpper(trimmed)
        dir == Split(PathDir(inFilePath), lit.slash)
        path == IF modPrefix # <<>> THEN Split(modPrefix, lit.dot) \o dir ELSE dir
    IN  Join(Append(upperSegments(path), shortModuleName), lit.dot)

RECURSIVE additionalImportsFrom(_, _, _)
additionalImportsFrom(prefix, dependencies, excluded) ==
    IF dependencies = <<>> THEN <<>>
    ELSE LET d == Head(dependencies)
             final == prefix
                 \o upperSegments(Split(TrimSuffix(d, lit.dotProto), lit.slash))
         IN  (IF d \in excluded THEN <<>> ELSE <<Join(final, lit.dot)>>)
             \o additionalImportsFrom(prefix, Tail(dependencies), excluded)

additionalImports(modPrefix, dependencies, excluded) ==
    additionalImportsFrom(Split(modPrefix, lit.dot), dependencies, excluded)

RECURSIVE hasMapEntriesInMessage(_)
hasMapEntriesInMessage(inMessage) ==
    \/ inMessage.mapEntry
    \/ \E i \in DOMAIN inMessage.nestedType :
          hasMapEntriesInMessage(inMessage.nestedType[i])

hasMapEntries(inFile) ==
    \E i \in DOMAIN inFile.messageType :
        hasMapEntriesInMessage(inFile.messageType[i])

templateFilePanics(inFile, p) ==
    \/ enumsToCustomTypesPanics(<<>>, inFile.enumType, p)
    \/ messagesPanics(<<>>, inFile.messageType, p)

\* The data templateFile executes the template on.
templateFile(inFile, p, excluded) ==
    [SourceFile |-> inFile.name,
     ModuleName |-> moduleName(p.modPrefix, inFile.name),
     ImportDict |-> hasMapEntries(inFile),
     AdditionalImports |->
         additionalImports(p.modPrefix, inFile.dependency, excluded),
     TopEnums |-> enumsToCustomTypes(<<>>, inFile.enumType, p),
     Messages |-> messages(<<>>, inFile.messageType, p)]

(***************************************************************************)
(* cmd/protoc-gen-elm: parseParameters.                                    *)
(***************************************************************************)
defaultExcludedFiles == { lit.f_timestampProto, lit.f_wrappersProto, lit.f_descriptorProto }

zeroParameters ==
    [Version |-> FALSE, Debug |-> FALSE, RemoveDeprecated |-> FALSE,
     modPrefix |-> <<>>]

RECURSIVE parseLoop(_, _)
\* The loop over strings.Split(*input, ","), on the entries left: st holds
\* result, err (as a flag), the excludedFiles map and whether v[0] of an
\* entry without "=" panicked.
parseLoop(entries, st) ==
    IF entries = <<>> \/ st.panicked THEN st
    ELSE LET parts == Split(Head(entries), lit.equals)
             name == parts[1]
             v == Tail(parts)
             next ==
                 CASE name = lit.p_removeDeprecated ->
                        [st EXCEPT !.result.RemoveDeprecated = TRUE]
                   [] name = lit.p_debug ->
                        [st EXCEPT !.result.Debug = TRUE]
                   [] name = lit.p_modulePrefix ->
                        IF v = <<>> THEN [st EXCEPT !.panicked = TRUE]
                        ELSE [st EXCEPT !.result.modPrefix = v[1]]
                   [] name = lit.p_exclude ->
                        IF v = <<>> THEN [st EXCEPT !.panicked = TRUE]
                        ELSE [st EXCEPT !.excluded = @ \cup {v[1]}]
                   [] OTHER -> [st EXCEPT !.err = TRUE]
         IN  parseLoop(Tail(entries), next)

\* A parser that reports only the error of the last entry: a recognized key
\* after an unknown one clears the error.
parseParameters_lastErrorOnly(input, excluded) ==
    LET start == [result |-> zeroParameters, err |-> FALSE,
                  excluded |-> excluded, panicked |-> FALSE]
        entries == Split(input.value, lit.comma)
        all == parseLoop(entries, start)
        last == parseLoop(<<entries[Len(entries)]>>, start)
    IN  IF ~input.has THEN start
        ELSE [all EXCEPT !.err = last.err]

parseParameters(input, excluded) ==
    LET start == [result |-> zeroParameters, err |-> FALSE,
                  excluded |-> excluded, panicked |-> FALSE]
    IN  IF ~input.has THEN start
        ELSE parseLoop(Split(input.value, lit.comma), start)

(***************************************************************************)
(* The requests checked.  Bounds first, then the descriptors built from    *)
(* them: one family of schema files per aspect of the compiler.            *)
(***************************************************************************)
MaxNum == 5

MaxFields == 3

MaxDepth == 2

MaxValues == 2

MaxFiles == 3

Field(name, number, label, type, typeName, hasOneofIndex, oneofIndex, deprecated, defaultValue) ==
    [name |-> name, number |-> number, label |-> label, type |-> type,
     typeName |-> typeName, hasOneofIndex |-> hasOneofIndex,
     oneofIndex |-> oneofIndex, deprecated |-> deprecated,
     defaultValue |-> defaultValue]

Message(name, field, oneofDecl, nestedType, enumType) ==
    [name |-> name, field |-> field, oneofDecl |-> oneofDecl,
     nestedType |-> nestedType, enumType |-> enumType,
     deprecated |-> FALSE, mapEntry |-> FALSE]

Enum(name, value, deprecated) ==
    [name |-> name, value |-> value, deprecated |-> deprecated]

File(name, dependency, enumType, messageType) ==
    [name |-> name, dependency |-> dependency, enumType |-> enumType,
     messageType |-> messageType]

\* The names the descriptors of the input families use.
nm ==
    [aProto |-> <<"a",".","p","r","o","t","o">>,
     dirBProto |-> <<"d","i","r","/","b",".","p","r","o","t","o">>,
     gProto |-> <<"g",".","p","r","o","t","o">>,
     flagProto |-> <<"f","l","a","g",".","p","r","o","t","o">>,
     M |-> <<"M">>,
     kind |-> <<"k","i","n","d">>,
     other |-> <<"o","t","h","e","r">>,
     value |-> <<"v","a","l","u","e">>,
     key |-> <<"k","e","y">>,
     tags |-> <<"t","a","g","s">>,
     TagsEntry |-> <<"T","a","g","s","E","n","t","r","y">>,
     Color |-> <<"C","o","l","o","r">>,
     t_pkgColor |-> <<".","p","k","g",".","C","o","l","o","r">>,
     t_pkgOther |-> <<".","p","k","g",".","O","t","h","e","r">>,
     A |-> <<"A">>,
     B |-> <<"B">>,
     A_B |-> <<"A","_","B">>,
     Kind |-> <<"K","i","n","d">>,
     color |-> <<"c","o","l","o","r">>,
     Point |-> <<"P","o","i","n","t">>,
     x |-> <<"x">>,
     y |-> <<"y">>,
     Timestamp |-> <<"T","i","m","e","s","t","a","m","p">>,
     seconds |-> <<"s","e","c","o","n","d","s">>]

t_pkgMTagsEntry ==
    <<".","p","k","g",".","M",".","T","a","g","s","E","n","t","r","y">>

RECURSIVE Ascending(_)
Ascending(S) ==
    IF S = {} THEN <<>>
    ELSE LET m == CHOOSE x \in S : \A y \in S : x <= y
         IN  <<m>> \o Ascending(S \ {m})

Reverse(s) == [i \in DOMAIN s |-> s[Len(s) + 1 - i]]

Rotate(s) == IF s = <<>> THEN s ELSE Tail(s) \o <<Head(s)>>

\* Declaration orders of the wire numbers S: ascending, descending, and
\* ascending with the smallest number declared last.
NumberOrders ==
    UNION { { Ascending(S), Reverse(Ascending(S)), Rotate(Ascending(S)) } :
            S \in { T \in SUBSET (1 .. MaxNum) : Cardinality(T) <= MaxFields } }

FieldAttrs == { "plain", "member", "deprecatedMember" }

NumberedField(n, attr) ==
    Field(<<"f">> \o Itoa(n), n, "LABEL_OPTIONAL", "TYPE_INT32", <<>>,
          attr # "plain", 0, attr = "deprecatedMember", <<>>)

\* Messages of int32 fields at chosen wire numbers, some of them members
\* of the oneof "kind", some of those deprecated.
NumberedMessages ==
    UNION { { Message(nm.M,
                      [i \in DOMAIN order |-> NumberedField(order[i], attr[i])],
                      IF \E i \in DOMAIN order : attr[i] # "plain"
                      THEN <<[name |-> nm.kind]>> ELSE <<>>,
                      <<>>, <<>>) :
              attr \in [DOMAIN order -> FieldAttrs] } :
            order \in NumberOrders }

\* Messages with two oneofs, each field in one of them or in neither.
TwoOneofMessages ==
    { Message(nm.M,
              [i \in 1 .. 3 |->
                  Field(<<"f">> \o Itoa(i), <<1, 2, 4>>[i], "LABEL_OPTIONAL",
                        "TYPE_INT32", <<>>, which[i] # 2, which[i] % 2,
                        FALSE, <<>>)],
              <<[name |-> nm.kind], [name |-> nm.other]>>, <<>>, <<>>) :
        which \in [1 .. 3 -> 0 .. 2] }

Labels == { "LABEL_OPTIONAL", "LABEL_REQUIRED", "LABEL_REPEATED" }

TypeNamesOf(type) ==
    CASE type = "TYPE_ENUM" -> { nm.t_pkgColor }
      [] type = "TYPE_MESSAGE" -> { nm.t_pkgOther, wkt.Timestamp }
      [] OTHER -> { <<>> }

\* The schema-level defaults tried for a kind: none, and one literal.
DefaultsOf(type) ==
    { <<>> } \cup
    CASE type \in IntKinds \cup FloatKinds -> { <<"7">> }
      [] type = "TYPE_BOOL" -> { <<"t","r","u","e">>, <<"f","a","l","s","e">> }
      [] type = "TYPE_STRING" -> { <<"a","\"","b">> }
      [] type = "TYPE_BYTES" -> { <<"x">> }
      [] type = "TYPE_ENUM" -> { <<"R","E","D">> }
      [] OTHER -> {}

KindFields ==
    UNION { { Field(nm.value, 2, label, type, typeName, member, 0, deprecated,
                    defaultValue) :
              label \in Labels, typeName \in TypeNamesOf(type),
              member \in BOOLEAN, deprecated \in BOOLEAN,
              defaultValue \in DefaultsOf(type) } :
            type \in AllKinds }

\* Messages of one field of every kind, label, default, oneof membership
\* and deprecation.
KindMessages ==
    { Message(nm.M, <<f>>,
              IF f.hasOneofIndex THEN <<[name |-> nm.kind]>> ELSE <<>>,
              <<>>, <<>>) : f \in KindFields }

\* The synthetic entry message of a map field.
MapEntries ==
    { [Message(nm.TagsEntry, fs, <<>>, <<>>, <<>>) EXCEPT !.mapEntry = TRUE] :
        fs \in
          { <<Field(nm.key, 1, "LABEL_OPTIONAL", keyType, <<>>, FALSE, 0, FALSE, <<>>),
              Field(nm.value, 2, "LABEL_OPTIONAL", valueType,
                    IF valueType = "TYPE_MESSAGE" THEN nm.t_pkgOther ELSE <<>>,
                    FALSE, 0, FALSE, <<>>)>> :
              keyType \in { "TYPE_STRING", "TYPE_INT32" },
              valueType \in { "TYPE_INT32", "TYPE_STRING", "TYPE_MESSAGE",
                              "TYPE_GROUP" } }
          \cup
          { <<Field(nm.key, 1, "LABEL_OPTIONAL", "TYPE_STRING", <<>>, FALSE, 0,
                    FALSE, <<>>)>> } }

\* Messages with one map field, also as a (malformed) member of a oneof.
MapMessages ==
    { Message(nm.M,
              <<Field(nm.tags, number, label, "TYPE_MESSAGE", t_pkgMTagsEntry,
                      member, 0, FALSE, <<>>)>>,
              IF member THEN <<[name |-> nm.kind]>> ELSE <<>>,
              <<entry>>, <<>>) :
        number \in { 1, MaxNum }, label \in { "LABEL_REPEATED", "LABEL_OPTIONAL" },
        member \in BOOLEAN, entry \in MapEntries }

EnumValues ==
    UNION { { [i \in 1 .. n |->
                  [name |-> <<"V">> \o Itoa(i - 1), number |-> i - 1,
                   deprecated |-> dep[i]]] :
              dep \in [1 .. n -> BOOLEAN] } :
            n \in 1 .. MaxValues }

Enums == { Enum(nm.Color, vs, dep) : vs \in EnumValues, dep \in BOOLEAN }

\* Files with one enum, at the top level or nested in a message.
EnumFiles ==
    { File(nm.aProto, <<>>, <<e>>, <<>>) : e \in Enums }
    \cup { File(nm.aProto, <<>>, <<>>, <<Message(nm.M, <<>>, <<>>, <<>>, <<e>>)>>) :
           e \in Enums }

ChainNames == { nm.A, nm.B, nm.A_B }

RECURSIVE Chains(_)
\* Messages nested in one another to at most d levels below the first.
Chains(d) ==
    { Message(n, <<>>, <<>>, <<>>, <<>>) : n \in ChainNames }
    \cup (IF d = 0 THEN {}
          ELSE { Message(n, <<>>, <<>>, <<c>>, <<>>) :
                 n \in ChainNames, c \in Chains(d - 1) })

\* One or two top-level chains with different names.
ChainFiles ==
    { File(nm.aProto, <<>>, <<>>, <<c>>) : c \in Chains(MaxDepth) }
    \cup { File(nm.aProto, <<>>, <<>>, <<pair[1], pair[2]>>) :
           pair \in { cs \in Chains(MaxDepth) \X Chains(MaxDepth) :
                       cs[1].name # cs[2].name } }

oneValue == <<[name |-> <<"V","0">>, number |-> 0, deprecated |-> FALSE]>>

\* A message A declaring a oneof, an enum and a nested message (with its
\* own enum), under raw names that differ within each scope.
ScopeFiles ==
    { File(nm.aProto, <<>>, <<>>,
           <<Message(nm.A,
                     IF oneof = <<>> THEN <<>>
                     ELSE <<Field(nm.value, 1, "LABEL_OPTIONAL", "TYPE_INT32",
                                  <<>>, TRUE, 0, FALSE, <<>>)>>,
                     IF oneof = <<>> THEN <<>> ELSE <<[name |-> oneof]>>,
                     IF nested = <<>> THEN <<>>
                     ELSE <<Message(nested, <<>>, <<>>, <<>>,
                                    <<Enum(nm.Kind, oneValue, FALSE)>>)>>,
                     IF enum = <<>> THEN <<>>
                     ELSE <<Enum(enum, oneValue, FALSE)>>)>>) :
        oneof \in { <<>>, nm.kind, nm.color },
        enum \in { <<>>, nm.Kind },
        nested \in { <<>>, nm.B, nm.Color } }

SchemaFiles ==
    { File(nm.aProto, <<>>, <<>>, <<m>>) :
        m \in NumberedMessages \cup TwoOneofMessages \cup KindMessages
              \cup MapMessages }
    \cup EnumFiles

IntField(name, number) ==
    Field(name, number, "LABEL_OPTIONAL", "TYPE_INT32", <<>>, FALSE, 0, FALSE, <<>>)

\* The files of a batch: two ordinary ones, a well-known one (in the
\* exclusion set from the start), one with a field of a kind without a
\* mapping, and one with a bool field.
BatchFilePool ==
    { File(nm.aProto, <<>>, <<>>,
           <<Message(nm.Point, <<IntField(nm.x, 1), IntField(nm.y, 2)>>,
                     <<>>, <<>>, <<>>)>>),
      File(nm.dirBProto, <<nm.aProto, lit.f_timestampProto>>,
           <<Enum(nm.Color, oneValue, FALSE)>>, <<>>),
      File(lit.f_timestampProto, <<>>, <<>>,
           <<Message(nm.Timestamp,
                     <<Field(nm.seconds, 1, "LABEL_OPTIONAL", "TYPE_GROUP",
                             <<>>, FALSE, 0, FALSE, <<>>)>>,
                     <<>>, <<>>, <<>>)>>),
      File(nm.gProto, <<>>, <<>>,
           <<Message(nm.M,
                     <<Field(nm.value, 1, "LABEL_OPTIONAL", "TYPE_GROUP", <<>>,
                             FALSE, 0, TRUE, <<>>)>>,
                     <<>>, <<>>, <<>>)>>),
      File(nm.flagProto, <<>>, <<>>,
           <<Message(nm.M,
                     <<Field(nm.value, 1, "LABEL_OPTIONAL", "TYPE_BOOL", <<>>,
                             FALSE, 0, FALSE, <<>>)>>,
                     <<>>, <<>>, <<>>)>>) }

\* Up to MaxFiles different files of the pool, in any order.
Batches ==
    { fs \in UNION { [1 .. n -> BatchFilePool] : n \in 1 .. MaxFiles } :
        \A i, j \in DOMAIN fs : i # j => fs[i] # fs[j] }

noParameter == [has |-> FALSE, value |-> <<>>]

Parameter(value) == [has |-> TRUE, value |-> value]

FlagParameters == { noParameter, Parameter(lit.p_removeDeprecated) }

BatchParameters ==
    FlagParameters \cup
    { Parameter(lit.p_removeDeprecated \o <<"=","f","a","l","s","e">>),
      Parameter(<<"b","o","g","u","s">>),
      Parameter(<<"b","o","g","u","s",",">> \o lit.p_removeDeprecated),
      Parameter(lit.p_exclude \o lit.equals \o nm.aProto),
      Parameter(lit.p_exclude),
      Parameter(lit.p_modulePrefix \o <<"=","x",".","y">>),
      Parameter(lit.p_debug \o lit.comma \o lit.p_removeDeprecated) }

Requests ==
    { [parameter |-> prm, protoFile |-> <<f>>] :
        prm \in FlagParameters, f \in SchemaFiles }
    \cup { [parameter |-> noParameter, protoFile |-> <<f>>] :
           f \in ChainFiles \cup ScopeFiles }
    \cup { [parameter |-> prm, protoFile |-> fs] :
           prm \in BatchParameters, fs \in Batches }

(***************************************************************************)
(* main: parse the parameters, template every file that is not excluded,   *)
(* write the response.  log.Fatalf and a panic both end the process with   *)
(* nothing written.                                                        *)
(***************************************************************************)
Init ==
    /\ req \in Requests
    /\ pc = "parse"
    /\ params = zeroParameters
    /\ excludedFiles = defaultExcludedFiles
    /\ idx = 0
    /\ resp = <<>>
    /\ stdout = [written |-> FALSE, file |-> <<>>]

ParseParameters ==
    /\ pc = "parse"
    /\ LET r == parseParameters(req.parameter, excludedFiles)
       IN  /\ ~r.panicked
           /\ ~r.err
           /\ params' = r.result
           /\ excludedFiles' = r.excluded
    /\ pc' = "loop"
    /\ idx' = 1
    /\ UNCHANGED <<req, resp, stdout>>

ParseParametersFatal ==
    /\ pc = "parse"
    /\ LET r == parseParameters(req.parameter, excludedFiles)
       IN  /\ ~(~r.panicked /\ ~r.err)
           /\ excludedFiles' = r.excluded
    /\ pc' = "fatal"
    /\ UNCHANGED <<req, params, idx, resp, stdout>>

SkipFile ==
    /\ pc = "loop"
    /\ idx <= Len(req.protoFile)
    /\ req.protoFile[idx].name \in excludedFiles
    /\ idx' = idx + 1
    /\ UNCHANGED <<req, pc, params, excludedFiles, resp, stdout>>

TemplateFile ==
    /\ pc = "loop"
    /\ idx <= Len(req.protoFile)
    /\ LET inFile == req.protoFile[idx]
       IN  /\ inFile.name \notin excludedFiles
           /\ ~templateFilePanics(inFile, params)
           /\ resp' = Append(resp,
                  [Name |-> fileName(inFile.name),
                   Content |-> templateFile(inFile, params, excludedFiles)])
    /\ idx' = idx + 1
    /\ UNCHANGED <<req, pc, params, excludedFiles, stdout>>

TemplateFilePanic ==
    /\ pc = "loop"
    /\ idx <= Len(req.protoFile)
    /\ LET inFile == req.protoFile[idx]
       IN  /\ inFile.name \notin excludedFiles
           /\ templateFilePanics(inFile, params) = TRUE
    /\ pc' = "fatal"
    /\ UNCHANGED <<req, params, excludedFiles, idx, resp, stdout>>

WriteResponse ==
    /\ pc = "loop"
    /\ idx > Len(req.protoFile)
    /\ stdout' = [written |-> TRUE, file |-> resp]
    /\ pc' = "done"
    /\ UNCHANGED <<req, params, excludedFiles, idx, resp>>

Next ==
    \/ ParseParameters
    \/ ParseParametersFatal
    \/ SkipFile
    \/ TemplateFile
    \/ TemplateFilePanic
    \/ WriteResponse

Spec == Init /\ [][Next]_vars
(***************************************************************************)
(* What the properties below read from a state: the files appended to the  *)
(* response, each with the descriptor it was generated from, and the       *)
(* message nodes of a model in the order the template walks them.          *)
(***************************************************************************)
RECURSIVE flattenMessages(_)
\* "nested-message": a message, then its nested messages, depth first.
flattenMessages(msgs) ==
    IF msgs = <<>> THEN <<>>
    ELSE <<Head(msgs)>> \o flattenMessages(Head(msgs).NestedMessages)
         \o flattenMessages(Tail(msgs))

\* The message nodes of every file generated so far.
GeneratedNodes ==
    UNION { Range(flattenMessages(resp[i].Content.Messages)) : i \in DOMAIN resp }

\* The descriptor a generated file came from.
SourceOf(content) ==
    CHOOSE f \in Range(req.protoFile) : f.name = content.SourceFile

Numbers(entries) == { entries[i].Number : i \in DOMAIN entries }

DistinctPositive(entries) ==
    /\ \A i \in DOMAIN entries : entries[i].Number >= 1
    /\ \A i, j \in DOMAIN entries :
          i # j => entries[i].Number # entries[j].Number

MaxOf(S) == IF S = {} THEN 0 ELSE CHOOSE n \in S : \A m \in S : m <= n

Parenthesized(expr) == <<"(">> \o expr \o <<")">>

(***************************************************************************)
(* C1.  For a message whose encode-order list holds entries with distinct  *)
(* wire numbers S (all >= 1), the emitted encoder list has exactly max(S)  *)
(* elements (none for an empty message): position n holds the encoder of   *)
(* the entry numbered n when n is in S and JE.null otherwise, and every    *)
(* element but the first is preceded by a separator.                       *)
(***************************************************************************)
C1_EncoderListAligned ==
    \A node \in GeneratedNodes :
        LET entries == node.TypeAlias.FieldEncoders
            items == typeAliasEncoderList(node.TypeAlias)
        IN  DistinctPositive(entries) =>
              /\ Len(items) = MaxOf(Numbers(entries))
              /\ \A n \in DOMAIN items :
                    /\ items[n].sep = (n # 1)
                    /\ \A i \in DOMAIN entries :
                          entries[i].Number = n =>
                              items[n].expr = Parenthesized(entries[i].Encoder)
                    /\ n \notin Numbers(entries) => items[n].expr = lit.JEnull

\* A generated message with fields declared at 5, 3, 1: five elements,
\* JE.null at 2 and 4.
C1_Witness ==
    \E node \in GeneratedNodes :
        LET items == typeAliasEncoderList(node.TypeAlias)
        IN  /\ Numbers(node.TypeAlias.FieldEncoders) = { 1, 3, 5 }
            /\ Len(items) = 5
            /\ items[2].expr = lit.JEnull
            /\ items[4].expr = lit.JEnull
            /\ items[5].expr # lit.JEnull

(***************************************************************************)
(* C2.  The encode-order entries of a oneof are those that call the        *)
(* oneof's encoder.  As claimed: a oneof with one or more surviving        *)
(* variants has exactly one such entry.  As the code has it: one entry per *)
(* surviving variant, at that variant's wire number.                       *)
(***************************************************************************)
OneofEntries(node, custom) ==
    { i \in DOMAIN node.TypeAlias.FieldEncoders :
        Split(node.TypeAlias.FieldEncoders[i].Encoder, lit.space)[1] = custom.Encoder }

VariantNums(custom) == { custom.Variants[i].Num : i \in DOMAIN custom.Variants }

C2_OneSlotPerOneof ==
    \A node \in GeneratedNodes :
        \A k \in DOMAIN node.OneOfCustomTypes :
            Len(node.OneOfCustomTypes[k].Variants) >= 1 =>
                Cardinality(OneofEntries(node, node.OneOfCustomTypes[k])) = 1

C2_OneSlotPerVariant ==
    \A node \in GeneratedNodes :
        \A k \in DOMAIN node.OneOfCustomTypes :
            LET custom == node.OneOfCustomTypes[k]
                entries == OneofEntries(node, custom)
            IN  /\ Cardinality(entries) = Len(custom.Variants)
                /\ { node.TypeAlias.FieldEncoders[i].Number : i \in entries }
                       = VariantNums(custom)

\* A generated message whose oneof has two variants and two entries.
C2_Witness ==
    \E node \in GeneratedNodes :
        \E k \in DOMAIN node.OneOfCustomTypes :
            /\ Len(node.OneOfCustomTypes[k].Variants) = 2
            /\ Cardinality(OneofEntries(node, node.OneOfCustomTypes[k])) = 2

(***************************************************************************)
(* C3.  Every field's decode expression reads the wire sequence at         *)
(* position (wire number - 1): the index argument of a field's decoder     *)
(* (the word after idxWithDefault or mapEntries) is that position, and so  *)
(* is the JD.index of every oneof variant.                                 *)
(***************************************************************************)
DecoderIndex(decoder) == Split(decoder, lit.space)[2]

C3_DecodeAtNumberMinusOne ==
    \A node \in GeneratedNodes :
        /\ \A i \in DOMAIN node.TypeAlias.Fields :
              LET f == node.TypeAlias.Fields[i]
              IN  f.Number >= 1 => DecoderIndex(f.Decoder) = Itoa(f.Number - 1)
        /\ \A k \in DOMAIN node.OneOfCustomTypes :
              LET custom == node.OneOfCustomTypes[k]
                  items == oneOfDecoderItems(custom)
              IN  \A i \in DOMAIN custom.Variants :
                      items[i].index = custom.Variants[i].Num - 1

\* The same for every shape but the map entry.
C3_NonMapDecodeAtNumberMinusOne ==
    \A node \in GeneratedNodes :
        \A i \in DOMAIN node.TypeAlias.Fields :
            LET f == node.TypeAlias.Fields[i]
            IN  (f.Number >= 1 /\ Split(f.Decoder, lit.space)[1] # TrimSuffix(lit.mapEntries, lit.space))
                    => DecoderIndex(f.Decoder) = Itoa(f.Number - 1)

(***************************************************************************)
(* C4.  Within one schema file whose declarations have different raw       *)
(* names within each scope, no two message, enum or oneof nodes get the    *)
(* same resolved type name.                                                *)
(***************************************************************************)
NamesOf(decls) == [i \in DOMAIN decls |-> decls[i].name]

NoDuplicates(names) ==
    \A i, j \in DOMAIN names : i # j => names[i] # names[j]

RECURSIVE ScopesDistinct(_)
\* Fields, oneofs, nested messages and enums of a message share its scope.
ScopesDistinct(messagePbs) ==
    \A m \in DOMAIN messagePbs :
        LET pb == messagePbs[m]
        IN  /\ NoDuplicates(NamesOf(pb.field) \o NamesOf(pb.oneofDecl)
                            \o NamesOf(pb.nestedType) \o NamesOf(pb.enumType))
            /\ ScopesDistinct(pb.nestedType)

FileScopesDistinct(file) ==
    /\ NoDuplicates(NamesOf(file.messageType) \o NamesOf(file.enumType))
    /\ ScopesDistinct(file.messageType)

NodeNames(nodes) == [i \in DOMAIN nodes |-> nodes[i].Name]

RECURSIVE typeNamesOf(_)
\* The type names the template declares for a list of messages: each
\* message's alias, its oneofs, its enums, then its nested messages.
typeNamesOf(msgs) ==
    IF msgs = <<>> THEN <<>>
    ELSE LET node == Head(msgs)
         IN  <<node.TypeAlias.Name>> \o NodeNames(node.OneOfCustomTypes)
             \o NodeNames(node.EnumCustomTypes)
             \o typeNamesOf(node.NestedMessages)
             \o typeNamesOf(Tail(msgs))

AllTypeNames(content) ==
    NodeNames(content.TopEnums) \o typeNamesOf(content.Messages)

C4_TypeNamesUnique ==
    \A i \in DOMAIN resp :
        FileScopesDistinct(SourceOf(resp[i].Content))
            => NoDuplicates(AllTypeNames(resp[i].Content))

(***************************************************************************)
(* C5.  The resolved type name of a message, enum or oneof is its ancestor *)
(* names joined in outer-to-inner order, then its own name: the names of a *)
(* generated file are those of the same walk made with the path of         *)
(* ancestors kept outer-to-inner.                                          *)
(***************************************************************************)
OuterToInnerName(name, path) ==
    FirstUpper(Join(Append(path, CamelCase(name)), lit.underscore))

RECURSIVE outerToInnerNames(_, _, _)
outerToInnerNames(path, messagePbs, p) ==
    IF messagePbs = <<>> THEN <<>>
    ELSE LET pb == Head(messagePbs)
             inner == Append(path, pb.name)
         IN  (IF pb.deprecated /\ p.RemoveDeprecated THEN <<>>
              ELSE <<OuterToInnerName(pb.name, path)>>
                   \o [k \in DOMAIN pb.oneofDecl |->
                          OuterToInnerName(pb.oneofDecl[k].name, inner)]
                   \o NodeNames(enumsToCustomTypes(Reverse(inner), pb.enumType, p))
                   \o outerToInnerNames(inner, pb.nestedType, p))
             \o outerToInnerNames(path, Tail(messagePbs), p)

C5_AncestorsOuterToInner ==
    \A i \in DOMAIN resp :
        LET content == resp[i].Content
        IN  typeNamesOf(content.Messages)
                = outerToInnerNames(<<>>, SourceOf(content).messageType, params)

(***************************************************************************)
(* Pairing of descriptors with the nodes generated from them.              *)
(***************************************************************************)
\* Whether a descriptor stays: it carries no deprecation marker, or the flag
\* is off.
survives(pb, p) == ~(pb.deprecated /\ p.RemoveDeprecated)

surviving(pbs, p) == SelectSeq(pbs, LAMBDA pb : survives(pb, p))

RECURSIVE messagePairs(_, _, _, _)
\* <<descriptor, node, preface of the descriptor's members>> for every
\* message that was generated, at any depth.
messagePairs(preface, messagePbs, nodes, p) ==
    LET alive == surviving(messagePbs, p)
    IN  UNION { LET inner == nestedPrefaceOf(alive[m], preface)
                IN  { <<alive[m], nodes[m], inner>> }
                    \cup messagePairs(inner, alive[m].nestedType,
                                      nodes[m].NestedMessages, p) :
                m \in DOMAIN nodes }

GeneratedPairs ==
    UNION { messagePairs(<<>>, SourceOf(resp[i].Content).messageType,
                         resp[i].Content.Messages, params) :
            i \in DOMAIN resp }

RECURSIVE descriptorsOf(_, _)
\* The messages of a list of descriptors that generation walks, at any depth.
descriptorsOf(messagePbs, p) ==
    LET alive == surviving(messagePbs, p)
    IN  UNION { { alive[m] } \cup descriptorsOf(alive[m].nestedType, p) :
                m \in DOMAIN alive }

SurvivingFields(pb, p) ==
    { pb.field[k] : k \in { j \in DOMAIN pb.field : survives(pb.field[j], p) } }

DeprecatedFields(pb) ==
    { pb.field[k] : k \in { j \in DOMAIN pb.field : pb.field[j].deprecated } }

AllVariantNums(node) ==
    UNION { VariantNums(node.OneOfCustomTypes[k]) :
            k \in DOMAIN node.OneOfCustomTypes }

RECURSIVE withoutFieldMarkers(_)
\* The same descriptors with no field marked deprecated.
withoutFieldMarkers(messagePbs) ==
    [m \in DOMAIN messagePbs |->
        LET pb == messagePbs[m]
        IN  [pb EXCEPT
                !.field = [k \in DOMAIN pb.field |->
                              [pb.field[k] EXCEPT !.deprecated = FALSE]],
                !.nestedType = withoutFieldMarkers(pb.nestedType)]]

(***************************************************************************)
(* C6.  With remove-deprecated enabled, a field marked deprecated appears  *)
(* in neither the decode field list nor the encode-order list of its       *)
(* message, nor as a variant of its oneof.  With the flag disabled the     *)
(* field appears in the encode-order list and in the decode list (or, for  *)
(* a oneof member, among its oneof's variants), and the generated messages *)
(* are those of the same schema with no field marked.                      *)
(***************************************************************************)
C6_DeprecatedFiltering ==
    /\ params.RemoveDeprecated =>
          \A pair \in GeneratedPairs :
              \A f \in DeprecatedFields(pair[1]) :
                  /\ f.number \notin Numbers(pair[2].TypeAlias.Fields)
                  /\ f.number \notin Numbers(pair[2].TypeAlias.FieldEncoders)
                  /\ f.number \notin AllVariantNums(pair[2])
    /\ ~params.RemoveDeprecated =>
          /\ \A i \in DOMAIN resp :
                resp[i].Content.Messages =
                    messages(<<>>,
                             withoutFieldMarkers(SourceOf(resp[i].Content).messageType),
                             params)
          /\ \A pair \in GeneratedPairs :
                \A f \in DeprecatedFields(pair[1]) :
                    /\ f.number \in Numbers(pair[2].TypeAlias.FieldEncoders)
                    /\ IF f.hasOneofIndex
                       THEN f.number \in AllVariantNums(pair[2])
                       ELSE f.number \in Numbers(pair[2].TypeAlias.Fields)

\* Flag on: a message generated from a descriptor with a deprecated field
\* and a field that stays.
C6_Witness ==
    /\ params.RemoveDeprecated
    /\ \E pair \in GeneratedPairs :
          /\ DeprecatedFields(pair[1]) # {}
          /\ pair[2].TypeAlias.FieldEncoders # <<>>

\* Flag off: a message generated with its deprecated field in both lists.
C6_WitnessKept ==
    /\ ~params.RemoveDeprecated
    /\ \E pair \in GeneratedPairs :
          \E f \in DeprecatedFields(pair[1]) :
              /\ f.number \in Numbers(pair[2].TypeAlias.Fields)
              /\ f.number \in Numbers(pair[2].TypeAlias.FieldEncoders)

(***************************************************************************)
(* C7.  For every singular non-oneof field with no schema-level default,   *)
(* generation completes and the field's default-value expression is the    *)
(* zero value of its kind: 0 for integer and floating kinds, "" for        *)
(* string, [] for bytes, False for bool, the enum's default-variant        *)
(* identifier for enum, Nothing for message.                               *)
(***************************************************************************)
ZeroValueOf(field) ==
    CASE field.type \in IntKinds \cup FloatKinds -> lit.zero
      [] field.type = "TYPE_STRING" -> lit.emptyQuoted
      [] field.type = "TYPE_BYTES" -> lit.emptyList
      [] field.type = "TYPE_BOOL" -> lit.False
      [] field.type = "TYPE_ENUM" ->
            EnumDefaultVariantVariableName(ExternalType(field.typeName))
      [] field.type = "TYPE_MESSAGE" -> lit.Nothing

SingularNoDefault(field, pb) ==
    /\ field.label # "LABEL_REPEATED"
    /\ ~field.hasOneofIndex
    /\ field.defaultValue = <<>>
    /\ field.type \in MappedKinds
    /\ fieldShape(field, pb) \in { "plain", "optional" }

\* The file generation stopped on.
AbortedFile == req.protoFile[idx]

GenerationAborted == pc = "fatal" /\ idx >= 1

C7_ZeroValueDefaults ==
    /\ \A pair \in GeneratedPairs :
          \A f \in SurvivingFields(pair[1], params) :
              SingularNoDefault(f, pair[1]) =>
                  \E i \in DOMAIN pair[2].TypeAlias.Fields :
                      /\ pair[2].TypeAlias.Fields[i].Number = f.number
                      /\ pair[2].TypeAlias.Fields[i].Default = ZeroValueOf(f)
    /\ GenerationAborted =>
          \A pb \in descriptorsOf(AbortedFile.messageType, params) :
              \A f \in SurvivingFields(pb, params) :
                  SingularNoDefault(f, pb) => ~fieldDefaultPanics(f)

\* The same for every kind but bool.
C7_ZeroValueDefaultsButBool ==
    /\ \A pair \in GeneratedPairs :
          \A f \in SurvivingFields(pair[1], params) :
              (SingularNoDefault(f, pair[1]) /\ f.type # "TYPE_BOOL") =>
                  \E i \in DOMAIN pair[2].TypeAlias.Fields :
                      /\ pair[2].TypeAlias.Fields[i].Number = f.number
                      /\ pair[2].TypeAlias.Fields[i].Default = ZeroValueOf(f)
    /\ GenerationAborted =>
          \A pb \in descriptorsOf(AbortedFile.messageType, params) :
              \A f \in SurvivingFields(pb, params) :
                  (SingularNoDefault(f, pb) /\ f.type # "TYPE_BOOL")
                      => ~fieldDefaultPanics(f)

(***************************************************************************)
(* C8.  Output is all-or-nothing over the batch: when classification of a  *)
(* surviving field of a non-excluded file meets a wire kind with no        *)
(* mapping the invocation aborts and nothing is written; otherwise the     *)
(* response written holds exactly one entry per input file that is not     *)
(* excluded, in input order.                                               *)
(***************************************************************************)
HasUnmappedKind(file, p) ==
    \E pb \in descriptorsOf(file.messageType, p) :
        \E f \in SurvivingFields(pb, p) : f.type \notin MappedKinds

Included(files) == SelectSeq(files, LAMBDA f : f.name \notin excludedFiles)

ExpectedNames ==
    LET files == Included(req.protoFile)
    IN  [i \in DOMAIN files |-> fileName(files[i].name)]

C8_AllOrNothing ==
    /\ pc # "done" => ~stdout.written /\ stdout.file = <<>>
    /\ GenerationAborted => HasUnmappedKind(AbortedFile, params)
    /\ pc = "done" =>
          /\ \A i \in DOMAIN req.protoFile :
                req.protoFile[i].name \notin excludedFiles
                    => ~HasUnmappedKind(req.protoFile[i], params)
          /\ stdout.written
          /\ NodeNames(stdout.file) = ExpectedNames

\* The half that holds: nothing is written unless every file was generated,
\* and what is written is one entry per included file, in input order.
C8_NothingOrEverything ==
    /\ pc # "done" => ~stdout.written /\ stdout.file = <<>>
    /\ pc = "done" =>
          /\ \A i \in DOMAIN req.protoFile :
                req.protoFile[i].name \notin excludedFiles
                    => ~HasUnmappedKind(req.protoFile[i], params)
          /\ stdout.written
          /\ NodeNames(stdout.file) = ExpectedNames

(***************************************************************************)
(* C9.  For every oneof, the generated decoder applied to a wire sequence  *)
(* in which every variant position is missing or null yields the           *)
(* Unspecified variant and never fails, and the owning message's holder    *)
(* field for that oneof has the same Unspecified variant as its default.   *)
(***************************************************************************)
Wires == UNION { [1 .. n -> { "null", "value" }] : n \in 0 .. MaxNum }

\* Position (wire number - 1) of a 0-based sequence is wire[number] here.
VariantsAbsent(custom, wire) ==
    \A i \in DOMAIN custom.Variants :
        \/ custom.Variants[i].Num \notin DOMAIN wire
        \/ wire[custom.Variants[i].Num] = "null"

Unspecified(custom) == custom.Name \o lit.Unspecified

FirstDeclared(enumPbs, nodes, preface, p) ==
    LET alive == surviving(enumPbs, p)
    IN  \A e \in DOMAIN nodes :
            nodes[e].DefaultVariantValue
                = NestedVariantName(alive[e].value[1].name, preface)

EnumBuildFails(file, p) ==
    \/ enumsToCustomTypesPanics(<<>>, file.enumType, p)
    \/ \E pb \in descriptorsOf(file.messageType, p) :
           enumsToCustomTypesPanics(<<>>, pb.enumType, p)

C10_DefaultIsFirstDeclared ==
    /\ \A i \in DOMAIN resp :
          FirstDeclared(SourceOf(resp[i].Content).enumType,
                        resp[i].Content.TopEnums, <<>>, params)
    /\ \A pair \in GeneratedPairs :
          FirstDeclared(pair[1].enumType, pair[2].EnumCustomTypes, pair[3], params)
    /\ GenerationAborted => ~EnumBuildFails(AbortedFile, params)

\* The same with remove-deprecated disabled.
C10_DefaultIsFirstDeclaredFlagOff ==
    ~params.RemoveDeprecated => C10_DefaultIsFirstDeclared

(***************************************************************************)
(* C11.  Every field whose label is repeated has the empty-sequence        *)
(* expression [] as its default value, whatever its kind and whether or    *)
(* not a schema-level default is set.                                      *)
(***************************************************************************)
\* The decode-list entry generated for a field.
EntryOf(f, node) ==
    LET fields == node.TypeAlias.Fields
    IN  fields[CHOOSE i \in DOMAIN fields : fields[i].Number = f.number]

HasEntry(f, node) == f.number \in Numbers(node.TypeAlias.Fields)

C11_RepeatedDefaultsEmpty ==
    \A pair \in GeneratedPairs :
        \A f \in SurvivingFields(pair[1], params) :
            (f.label = "LABEL_REPEATED" /\ ~f.hasOneofIndex) =>
                /\ HasEntry(f, pair[2])
                /\ EntryOf(f, pair[2]).Default = lit.emptyList

\* The same for the repeated fields whose type is not a map entry.
C11_RepeatedListDefaultsEmpty ==
    \A pair \in GeneratedPairs :
        \A f \in SurvivingFields(pair[1], params) :
            (/\ f.label = "LABEL_REPEATED"
             /\ ~f.hasOneofIndex
             /\ ~hasNestedType(f, pair[1])) =>
                /\ HasEntry(f, pair[2])
                /\ EntryOf(f, pair[2]).Default = lit.emptyList

(***************************************************************************)
(* C12.  A field's shape is chosen by a fixed precedence.  As claimed: map *)
(* entry, then oneof member, then optional singular message, then          *)
(* repeated, then plain scalar.  As the field loop of messages tests them: *)
(* oneof member, then map entry, then optional singular message, then      *)
(* repeated, then plain scalar.  In both a field satisfying several of the *)
(* conditions is given the shape of the earliest one.                      *)
(***************************************************************************)
StartsWith(s, prefix) ==
    Len(s) >= Len(prefix) /\ SubSeq(s, 1, Len(prefix)) = prefix

\* The shape a generated message shows for a field: a oneof member has an
\* encode-order entry and no decode-list entry of its own; the others are
\* told apart by the wrapping of the decode expression.
ObservedShape(f, node) ==
    IF ~HasEntry(f, node)
    THEN IF f.number \in Numbers(node.TypeAlias.FieldEncoders)
         THEN "oneof" ELSE "none"
    ELSE LET words == Split(EntryOf(f, node).Decoder, lit.space)
         IN  IF words[1] = TrimSuffix(lit.mapEntries, lit.space) THEN "map"
             ELSE IF StartsWith(words[3], <<"(","J","D",".","m","a","y","b","e">>)
                  THEN "optional"
             ELSE IF StartsWith(words[3], <<"(","J","D",".","l","i","s","t">>)
                  THEN "repeated"
             ELSE "plain"

\* The conditions of the five shapes, on the descriptor.
ShapeConditions(f, pb) ==
    [map |-> hasNestedType(f, pb),
     oneof |-> f.hasOneofIndex,
     optional |-> f.label = "LABEL_OPTIONAL" /\ f.type = "TYPE_MESSAGE",
     repeated |-> f.label = "LABEL_REPEATED",
     plain |-> TRUE]

\* The first shape of an order whose condition holds.
EarliestShape(order, cond) ==
    order[CHOOSE i \in DOMAIN order :
              cond[order[i]] /\ \A j \in 1 .. (i - 1) : ~cond[order[j]]]

ShapesFollow(order) ==
    \A pair \in GeneratedPairs :
        \A f \in SurvivingFields(pair[1], params) :
            ObservedShape(f, pair[2])
                = EarliestShape(order, ShapeConditions(f, pair[1]))

C12_WitnessMapOverRepeated ==
    \E pair \in GeneratedPairs :
        \E f \in SurvivingFields(pair[1], params) :
            /\ ShapeConditions(f, pair[1]).map
            /\ ShapeConditions(f, pair[1]).repeated
            /\ ~ShapeConditions(f, pair[1]).oneof
            /\ ObservedShape(f, pair[2]) = "map"

(***************************************************************************)
(* C13.  For a map-entry field, both the decode expression and the encode  *)
(* expression contain the classifier's codec for the entry's key field     *)
(* (position 0) as well as the codec for its value field (position 1).     *)
(***************************************************************************)
Contains(s, sub) ==
    \E i \in 1 .. (Len(s) - Len(sub) + 1) : SubSeq(s, i, i + Len(sub) - 1) = sub

\* The surviving fields of a generated message that were given the map
\* shape, each with its synthetic entry.
MapFieldsOf(pair) ==
    { f \in SurvivingFields(pair[1], params) :
        hasNestedType(f, pair[1]) /\ ObservedShape(f, pair[2]) = "map" }

KeyOf(f, pb) == getNestedType(f, pb).field[1]

ValueOf(f, pb) == getNestedType(f, pb).field[2]

C13_MapCodecsHoldKeyAndValue ==
    \A pair \in GeneratedPairs :
        \A f \in MapFieldsOf(pair) :
            LET entry == EntryOf(f, pair[2])
            IN  /\ Contains(entry.Decoder, BasicFieldDecoder(KeyOf(f, pair[1])))
                /\ Contains(entry.Decoder, BasicFieldDecoder(ValueOf(f, pair[1])))
                /\ Contains(entry.Encoder, BasicFieldEncoder(KeyOf(f, pair[1])))
                /\ Contains(entry.Encoder, BasicFieldEncoder(ValueOf(f, pair[1])))

\* The same for the value field alone.
C13_MapCodecsHoldValue ==
    \A pair \in GeneratedPairs :
        \A f \in MapFieldsOf(pair) :
            LET entry == EntryOf(f, pair[2])
            IN  /\ Contains(entry.Decoder, BasicFieldDecoder(ValueOf(f, pair[1])))
                /\ Contains(entry.Encoder, BasicFieldEncoder(ValueOf(f, pair[1])))

(***************************************************************************)
(* C14.  The decode-order field list of a message.  As claimed: for any    *)
(* two surviving fields declared at positions i < j, the entry that        *)
(* carries field i (the oneof holder when the field is a oneof member)     *)
(* comes before the entry that carries field j, unless both are carried by *)
(* the same entry.  As generated: the fields that are not oneof members    *)
(* come in declaration order, and after all of them one holder per oneof,  *)
(* in the order the oneofs are declared.                                   *)
(***************************************************************************)
PosOfField(f, node) ==
    LET fields == node.TypeAlias.Fields
    IN  CHOOSE i \in DOMAIN fields : fields[i].Number = f.number

\* The holder of the k-th oneof: the entry without a number whose type is
\* the oneof's.
HolderPositions(k, node) ==
    LET fields == node.TypeAlias.Fields
    IN  { i \in DOMAIN fields :
            /\ fields[i].Number = 0
            /\ fields[i].Type = node.OneOfCustomTypes[k].Name }

PosOfHolder(k, node) == CHOOSE i \in HolderPositions(k, node) : TRUE

Carrier(f, node) ==
    IF f.hasOneofIndex THEN PosOfHolder(f.oneofIndex + 1, node)
    ELSE PosOfField(f, node)

Declared(pb, p) == { k \in DOMAIN pb.field : survives(pb.field[k], p) }

C14_DecodeOrderIsDeclarationOrder ==
    \A pair \in GeneratedPairs :
        \A i, j \in Declared(pair[1], params) :
            i < j => Carrier(pair[1].field[i], pair[2])
                        <= Carrier(pair[1].field[j], pair[2])

C14_FieldsThenHolders ==
    \A pair \in GeneratedPairs :
        LET pb == pair[1]
            node == pair[2]
            own == { k \in Declared(pb, params) : ~pb.field[k].hasOneofIndex }
        IN  /\ Len(node.TypeAlias.Fields) = Cardinality(own) + Len(pb.oneofDecl)
            /\ \A i, j \in own :
                  i < j => PosOfField(pb.field[i], node) < PosOfField(pb.field[j], node)
            /\ \A k \in DOMAIN pb.oneofDecl :
                  /\ Cardinality(HolderPositions(k, node)) = 1
                  /\ \A i \in own : PosOfField(pb.field[i], node) < PosOfHolder(k, node)
                  /\ \A l \in DOMAIN pb.oneofDecl :
                        k < l => PosOfHolder(k, node) < PosOfHolder(l, node)

\* A generated message whose first declared field is a oneof member and whose
\* last is not: the holder comes after the field.
C14_Witness ==
    \E pair \in GeneratedPairs :
        LET pb == pair[1]
        IN  /\ Len(pb.field) >= 2
            /\ Declared(pb, params) = DOMAIN pb.field
            /\ pb.field[1].hasOneofIndex
            /\ ~pb.field[Len(pb.field)].hasOneofIndex
            /\ PosOfField(pb.field[Len(pb.field)], pair[2])
                  < PosOfHolder(pb.field[1].oneofIndex + 1, pair[2])

(***************************************************************************)
(* C15.  For a oneof with variants at wire numbers V and any value of that *)
(* oneof, the message's encoded sequence has the active variant's encoded  *)
(* value at that variant's own wire position and a null at the position of *)
(* every other number in V; when the value is Unspecified every position   *)
(* in V is null.                                                           *)
(***************************************************************************)
RECURSIVE Atoi(_)
\* The number a decimal literal of the generated text denotes.
Atoi(s) ==
    IF s = <<>> THEN 0
    ELSE 10 * Atoi(SubSeq(s, 1, Len(s) - 1))
         + (CHOOSE d \in 0 .. 9 : digits[d + 1] = s[Len(s)])

\* What the item at a position of the encoder list evaluates to when the
\* oneof holds v: the oneof's encoder applied to the index written in the
\* item, "other" for an item that is not a call of that encoder.
EncodedAt(node, custom, n, v) ==
    LET items == typeAliasEncoderList(node.TypeAlias)
        expr == items[n].expr
        words == Split(SubSeq(expr, 2, Len(expr) - 1), lit.space)
    IN  IF expr = lit.JEnull THEN [kind |-> "null", encoder |-> <<>>]
        ELSE IF words[1] = custom.Encoder
        THEN oneOfEncode(custom, Atoi(words[2]), v)
        ELSE [kind |-> "other", encoder |-> <<>>]

\* The values of a oneof, by constructor name.
ValuesOf(custom) ==
    { Unspecified(custom) }
        \cup { custom.Variants[i].Name : i \in DOMAIN custom.Variants }

WellFormedOneof(node, custom) ==
    /\ DistinctPositive(node.TypeAlias.FieldEncoders)
    /\ \A i, j \in DOMAIN custom.Variants :
          i # j => custom.Variants[i].Name # custom.Variants[j].Name

C15_ActiveVariantAtItsPosition ==
    \A node \in GeneratedNodes :
        \A k \in DOMAIN node.OneOfCustomTypes :
            LET custom == node.OneOfCustomTypes[k]
            IN  WellFormedOneof(node, custom) =>
                  \A v \in ValuesOf(custom) :
                      \A i \in DOMAIN custom.Variants :
                          LET variant == custom.Variants[i]
                          IN  /\ variant.Num \in DOMAIN typeAliasEncoderList(node.TypeAlias)
                              /\ EncodedAt(node, custom, variant.Num, v)
                                    = IF v = variant.Name
                                      THEN [kind |-> "value",
                                            encoder |-> variant.Encoder]
                                      ELSE [kind |-> "null", encoder |-> <<>>]

\* A oneof of two variants holding its second one: the value is at the
\* second variant's position, a null at the first's.
C15_Witness ==
    \E node \in GeneratedNodes :
        \E k \in DOMAIN node.OneOfCustomTypes :
            LET custom == node.OneOfCustomTypes[k]
            IN  /\ WellFormedOneof(node, custom)
                /\ Len(custom.Variants) = 2
                /\ EncodedAt(node, custom, custom.Variants[2].Num,
                             custom.Variants[2].Name).kind = "value"
                /\ EncodedAt(node, custom, custom.Variants[1].Num,
                             custom.Variants[2].Name).kind = "null"

(***************************************************************************)
(* C16.  Reference and declaration agree on names: for a field whose type  *)
(* is a message or enum declared in the same file at any nesting depth     *)
(* (package segments lower case, type names capitalized), the type name    *)
(* the classifier derives from the fully-qualified type name equals the    *)
(* resolved name of the declaration's node, and so do the derived decoder, *)
(* encoder and enum-default identifiers.                                   *)
(***************************************************************************)
\* The fully-qualified name of the declaration at a path of names, outer to
\* inner, in package pkg.
FullName(path) == <<".","p","k","g",".">> \o Join(path, lit.dot)

\* A singular field that refers to the declaration at a path.
Reference(path, type) ==
    Field(<<"r","e","f">>, 1, "LABEL_REQUIRED", type, FullName(path), FALSE, 0,
          FALSE, <<>>)

MessageAgrees(path, alias) ==
    LET ref == Reference(path, "TYPE_MESSAGE")
    IN  /\ BasicFieldType(ref) = alias.Name
        /\ BasicFieldDecoder(ref) = alias.Decoder
        /\ BasicFieldEncoder(ref) = alias.Encoder

EnumAgrees(path, enum) ==
    LET ref == Reference(path, "TYPE_ENUM")
    IN  /\ BasicFieldType(ref) = enum.Name
        /\ BasicFieldDecoder(ref) = enum.Decoder
        /\ BasicFieldEncoder(ref) = enum.Encoder
        /\ BasicFieldDefaultValue(ref) = enum.DefaultVariantVariable

\* The declarations generated so far, each with its path: <<path, kind,
\* node>>.  The third component of a pair is the message's own name followed
\* by its ancestors', innermost first.
GeneratedDeclarations ==
    { <<Reverse(pair[3]), "message", pair[2].TypeAlias>> : pair \in GeneratedPairs }
    \cup UNION { LET alive == surviving(pair[1].enumType, params)
                 IN  { <<Append(Reverse(pair[3]), alive[e].name), "enum",
                         pair[2].EnumCustomTypes[e]>> :
                       e \in DOMAIN pair[2].EnumCustomTypes } :
                 pair \in GeneratedPairs }
    \cup UNION { LET alive == surviving(SourceOf(resp[i].Content).enumType, params)
                 IN  { <<<<alive[e].name>>, "enum", resp[i].Content.TopEnums[e]>> :
                       e \in DOMAIN resp[i].Content.TopEnums } :
                 i \in DOMAIN resp }

DeclarationAgrees(decl) ==
    IF decl[2] = "message" THEN MessageAgrees(decl[1], decl[3])
    ELSE EnumAgrees(decl[1], decl[3])

Capitalized(path) ==
    \A i \in DOMAIN path : path[i] # <<>> /\ IsUpper(path[i][1])

C16_ReferenceMatchesDeclaration ==
    \A decl \in GeneratedDeclarations :
        Capitalized(decl[1]) => DeclarationAgrees(decl)

\* The same for declarations at most one level below the top whose names
\* hold no underscore.
C16_ReferenceMatchesShallowDeclaration ==
    \A decl \in GeneratedDeclarations :
        (/\ Capitalized(decl[1])
         /\ Len(decl[1]) <= 2
         /\ \A i \in DOMAIN decl[1] : ~Contains(decl[1][i], lit.underscore))
            => DeclarationAgrees(decl)

(***************************************************************************)
(* C17.  For every singular scalar (plain-shape) field, the fallback value *)
(* embedded in its decode expression for a missing wire slot equals the    *)
(* field's default-value expression, including when the schema sets an     *)
(* explicit default.                                                       *)
(***************************************************************************)
\* The third argument of idxWithDefault in a decode expression.
FallbackOf(decoder) ==
    LET words == Split(decoder, lit.space)
    IN  Join(SubSeq(words, 4, Len(words)), lit.space)

PlainFieldsOf(pair) ==
    { f \in SurvivingFields(pair[1], params) :
        ObservedShape(f, pair[2]) = "plain" }

C17_FallbackIsDefault ==
    \A pair \in GeneratedPairs :
        \A f \in PlainFieldsOf(pair) :
            FallbackOf(EntryOf(f, pair[2]).Decoder) = EntryOf(f, pair[2]).Default

\* The same for the fields the schema sets no default for.
C17_FallbackIsDefaultWithoutSchemaDefault ==
    \A pair \in GeneratedPairs :
        \A f \in PlainFieldsOf(pair) :
            f.defaultValue = <<>> =>
                FallbackOf(EntryOf(f, pair[2]).Decoder) = EntryOf(f, pair[2]).Default


(***************************************************************************)
(* C18: imports of dependencies and the module names of the dependencies.  *)
(***************************************************************************)
\* The input file a generated file was made from.
InputOf(content) ==
    CHOOSE f \in { req.protoFile[i] : i \in DOMAIN req.protoFile } :
        f.name = content.SourceFile

\* The dependencies of a generated file that are not in the exclusion set.
ImportedDependencies(content) ==
    SelectSeq(InputOf(content).dependency, LAMBDA d : d \notin excludedFiles)

\* The generated files of the response made from the file named d.
GeneratedFrom(d) ==
    { resp[j].Content : j \in { k \in DOMAIN resp : resp[k].Content.SourceFile = d } }

\* C18: a generated file has one import per dependency outside the exclusion
\* set, in order, and none for an excluded one; whenever such a dependency is
\* generated in the same run (so with the same module prefix), the import
\* name is the module name of the file generated from it.
C18_ImportIsModuleName ==
    \A i \in DOMAIN resp :
        LET content == resp[i].Content
            deps == ImportedDependencies(content)
        IN  /\ Len(content.AdditionalImports) = Len(deps)
            /\ \A k \in DOMAIN deps : \A generated \in GeneratedFrom(deps[k]) :
                   content.AdditionalImports[k] = generated.ModuleName

\* What holds instead: one import per dependency outside the exclusion set,
\* made of the prefix as written, a dot, and the module name the dependency
\* has without a prefix.
C18_ImportIsRawPrefixThenName ==
    \A i \in DOMAIN resp :
        LET content == resp[i].Content
            deps == ImportedDependencies(content)
        IN  /\ Len(content.AdditionalImports) = Len(deps)
            /\ \A k \in DOMAIN deps :
                   content.AdditionalImports[k]
                       = params.modPrefix \o lit.dot \o moduleName(<<>>, deps[k])


(***************************************************************************)
(* C19: what parameter parsing leaves behind.                              *)
(***************************************************************************)
\* The comma-separated entries of the request's parameter, as written.
ParameterEntries ==
    IF req.parameter.has THEN Split(req.parameter.value, lit.comma) ELSE <<>>

\* The key of an entry: its text before the first "=".
KeyOfEntry(entry) == Split(entry, lit.equals)[1]

KeysGiven == { KeyOfEntry(ParameterEntries[i]) : i \in DOMAIN ParameterEntries }

RecognizedKeys ==
    { lit.p_removeDeprecated, lit.p_debug, lit.p_modulePrefix, lit.p_exclude }

\* Parsing is over and the loop over the files was entered.
ParsingSucceeded == idx >= 1

\* C19: once parsing has succeeded, deprecated-element filtering is on
\* exactly when the parameter has a remove-deprecated entry, whatever follows
\* its "="; and a parameter with an unrecognized key anywhere never gets past
\* parsing: no file is processed and nothing is written, whichever recognized
\* keys follow the unrecognized one.
C19_FlagAndUnknownKey ==
    /\ ParsingSucceeded =>
           (params.RemoveDeprecated <=> lit.p_removeDeprecated \in KeysGiven)
    /\ KeysGiven \ RecognizedKeys # {} =>
           /\ pc \in {"parse", "fatal"}
           /\ ~ParsingSucceeded
           /\ resp = <<>>
           /\ ~stdout.written

\* An unknown key followed by a recognized one has ended the run in parsing.
C19_Witness ==
    /\ pc = "fatal"
    /\ Len(ParameterEntries) = 2
    /\ KeyOfEntry(ParameterEntries[1]) \notin RecognizedKeys
    /\ KeyOfEntry(ParameterEntries[2]) = lit.p_removeDeprecated
    /\ resp = <<>>

\* A remove-deprecated entry with text after "=" has switched filtering on.
C19_WitnessFlagWithValue ==
    /\ ParsingSucceeded
    /\ params.RemoveDeprecated
    /\ \E i \in DOMAIN ParameterEntries :
           /\ KeyOfEntry(ParameterEntries[i]) = lit.p_removeDeprecated
           /\ Len(Split(ParameterEntries[i], lit.equals)) > 1

\* No remove-deprecated entry among recognized ones: filtering stays off.
C19_WitnessFlagOff ==
    /\ ParsingSucceeded
    /\ KeysGiven # {}
    /\ ~params.RemoveDeprecated

====
